---- MODULE Spec2Model ----
(***************************************************************************)
(* A model of the server-fx core: the Framed transport over a non-blocking *)
(* byte stream, the SendOne sink adapter, the Connection state machine,    *)
(* the Join / AndThen / MapErr combinators, the ThreadPool with its        *)
(* workers, TcpServer::serve and the Twister.  Every operator is           *)
(* translated from the Rust source it names in MODEL_MAP.json.             *)
(*                                                                         *)
(* Option<T> is a sequence of length at most one: <<>> is None, <<x>> is   *)
(* Some(x).  A byte string (Vec<u8>) is a sequence of byte values.         *)
(***************************************************************************)
EXTENDS Integers, Sequences, FiniteSets, TLC

VARIABLES
    inbox,      \* the stream's read side: bytes the peer sends, not yet read
    outbox,     \* the stream's write side: bytes written so far
    buffer,     \* Framed.buffer
    ret,        \* what the last call returned: [res, item]
    call,       \* the last call: its name and argument, the state it started
                \* in, the last I/O result it saw, what its inner call returned
    input0,     \* the bytes the peer sends in the whole run
    drained,    \* the bytes the decoder has drained from the buffer so far
    encoded,    \* the bytes the encoder has appended to the buffer so far
    conn,       \* the Connection variant
    pollable,   \* Connection::Handling's in-flight response
    value,      \* SendOne.value
    requests,   \* the requests handed to Handler::handle so far
    faulted,    \* the environment has failed: an I/O error, EOF, a handler error
    rt,         \* the round-trip driver: [frames, sent, got]
    join,       \* a Join over two inner Pollables: [state, left, right, lv, rv]
    andThen,    \* an AndThen: [state, first, second, fcalls, farg]
    mapErr,     \* a MapErr: [inner, f, fcalls, farg]
    polls,      \* what each poll() of the combinator has returned, in order
    pool,       \* the ThreadPool and its workers
    server,     \* TcpServer::serve: its position and the streams of the run
    twister,    \* a Twister over two Half endpoints
    http,       \* one run of the HTTP parser: its input and what it returned
    fuse,       \* a FuseResult and the Pollable it wraps
    sendOne     \* one SendOne::poll call, step by step: [pc, taken]

vars == <<inbox, outbox, buffer, ret, call, input0, drained, encoded,
          conn, pollable, value, requests, faulted, rt, join, andThen,
          mapErr, polls, pool, server, twister, http, fuse, sendOne>>

---------------------------------------------------------------------------
(* Bounds of the model. *)

\* the longest byte string the peer sends
MaxIn == 4
\* the most polls a handler's response stays NotReady
MaxDelay == 1
\* the longest item a caller offers to the sink
MaxItem == 2
\* the most bytes a caller has encoded when it offers another item
MaxOut == 3
\* the longest byte string the peer sends to a Framed that is also written to
MaxInSink == 2
\* the most frames, and the longest frame, of a round trip
MaxFrames == 2
MaxFrameLen == 2
\* the most polls an inner Pollable of a combinator stays NotReady
MaxK == 2

---------------------------------------------------------------------------
(* Bytes and byte strings. *)

LF == 10
CR == 13
Letters == {97}
Bytes == {LF, CR} \cup Letters

Min(a, b) == IF a < b THEN a ELSE b

Take(s, n) == SubSeq(s, 1, n)
Drop(s, n) == SubSeq(s, n + 1, Len(s))

SeqsUpTo(S, n) == UNION {[1..k -> S] : k \in 0..n}

IsPrefix(s, t) == Len(s) <= Len(t) /\ Take(t, Len(s)) = s

None == <<>>
Some(x) == <<x>>

---------------------------------------------------------------------------
(* The line codec of examples/line_server.rs. *)

\* buffer.iter().position(|v| *v == b'\r' || *v == b'\n'), 1-based; 0: none
Position(buf) ==
    LET hits == {i \in 1..Len(buf) : buf[i] = CR \/ buf[i] = LF}
    IN  IF hits = {} THEN 0 ELSE CHOOSE i \in hits : \A j \in hits : i <= j

\* while buffer.get(0) == Some(b'\n') { buffer.drain(..1) }
RECURSIVE StripLF(_)
StripLF(buf) ==
    IF Len(buf) > 0 /\ buf[1] = LF THEN StripLF(Drop(buf, 1)) ELSE buf

\* LineCodec::decode: [ok, item, rest]
LineDecode(buf) ==
    LET pos == Position(buf)
    IN  IF pos = 0
        THEN [ok |-> FALSE, item |-> <<>>, rest |-> buf]
        ELSE [ok |-> TRUE, item |-> Take(buf, pos - 1),
              rest |-> StripLF(Drop(buf, pos - 1))]

\* LineCodec::encode: buffer.extend(&item)
LineEncode(item, buf) == buf \o item

---------------------------------------------------------------------------
(* A length-prefixed codec: a frame is its length byte, then its bytes. *)

LenDecode(buf) ==
    IF Len(buf) > 0 /\ Len(buf) >= 1 + buf[1]
    THEN [ok |-> TRUE, item |-> SubSeq(buf, 2, 1 + buf[1]),
          rest |-> Drop(buf, 1 + buf[1])]
    ELSE [ok |-> FALSE, item |-> <<>>, rest |-> buf]

LenEncode(item, buf) == buf \o <<Len(item)>> \o item

\* Decode::decode and Encode::encode of the codec a Framed was built with
Decode(codec, buf) == IF codec = "line" THEN LineDecode(buf) ELSE LenDecode(buf)
Encode(codec, item, buf) ==
    IF codec = "line" THEN LineEncode(item, buf) ELSE LenEncode(item, buf)

---------------------------------------------------------------------------
(* The byte stream: std::io::Read and Write on a non-blocking stream.      *)
(* kind "net" is a socket: a read returns any positive count up to what    *)
(* the peer has sent and the caller's buffer holds, would block, fails, or *)
(* returns 0 once the peer has sent everything and closed.  kind "mem" is  *)
(* an in-memory duplex stream: a read returns everything written so far.   *)

\* let mut buf = [0_u8; 256]
ReadBufSize == 256

ReadResults(kind, inb) ==
    IF kind = "net"
    THEN {[io |-> "WouldBlock", n |-> 0], [io |-> "IoErr", n |-> 0]}
         \cup {[io |-> "Ok", n |-> k] : k \in 1..Min(ReadBufSize, Len(inb))}
         \cup (IF inb = <<>> THEN {[io |-> "Ok", n |-> 0]} ELSE {})
    ELSE IF inb = <<>>
         THEN {[io |-> "WouldBlock", n |-> 0], [io |-> "Ok", n |-> 0]}
         ELSE {[io |-> "Ok", n |-> Min(ReadBufSize, Len(inb))]}

\* A write of a non-empty buffer takes any positive count, would block or
\* fails; a write of an empty buffer returns 0 or fails.  kind "any" is any
\* S: Write, whose write may also take none of a non-empty buffer.
WriteResults(kind, buf) ==
    IF kind = "net"
    THEN {[io |-> "IoErr", n |-> 0]}
         \cup (IF buf = <<>> THEN {[io |-> "Ok", n |-> 0]}
               ELSE {[io |-> "WouldBlock", n |-> 0]}
                    \cup {[io |-> "Ok", n |-> k] : k \in 1..Len(buf)})
    ELSE IF kind = "mem"
    THEN {[io |-> "Ok", n |-> Len(buf)]}
    ELSE {[io |-> "IoErr", n |-> 0], [io |-> "WouldBlock", n |-> 0]}
         \cup {[io |-> "Ok", n |-> k] : k \in 0..Len(buf)}

---------------------------------------------------------------------------
(* try_poll_io!: what an I/O error makes the enclosing function return. *)

\* [res, err]
TryPollIo(io) ==
    IF io = "WouldBlock"
    THEN [res |-> "NotReady", err |-> ""]
    ELSE [res |-> "Err", err |-> "Other"]

---------------------------------------------------------------------------
(* Framed as a Pollable. *)

\* 0 => return Err(io::ErrorKind::UnexpectedEof.into())
ZeroReadPending == [res |-> "NotReady", err |-> ""]

ZeroRead == [res |-> "Err", err |-> "UnexpectedEof"]

\* self.buffer.extend(&buf[..bytes_read])
ExtendReplace(buf, bytes) == bytes

Extend(buf, bytes) == buf \o bytes

\* Framed::poll: every outcome the stream allows, each
\* [res, err, item, buffer, inbox, io, drained]
RECURSIVE FramedPoll(_, _, _, _)
FramedPoll(codec, kind, buf, inb) ==
    UNION {
        IF r.io # "Ok"
        THEN {[res |-> TryPollIo(r.io).res, err |-> TryPollIo(r.io).err,
               item |-> None, buffer |-> buf,
               inbox |-> inb, io |-> r.io, drained |-> <<>>]}
        ELSE IF r.n = 0
        THEN {[res |-> ZeroRead.res, err |-> ZeroRead.err,
               item |-> None, buffer |-> buf,
               inbox |-> inb, io |-> "Eof", drained |-> <<>>]}
        ELSE LET buf2 == Extend(buf, Take(inb, r.n))
                 d    == Decode(codec, buf2)
             IN  IF d.ok
                 THEN {[res |-> "Ready", err |-> "", item |-> Some(d.item),
                        buffer |-> d.rest, inbox |-> Drop(inb, r.n),
                        io |-> "Data",
                        drained |-> Take(buf2, Len(buf2) - Len(d.rest))]}
                 ELSE FramedPoll(codec, kind, buf2, Drop(inb, r.n))
        : r \in ReadResults(kind, inb)}

---------------------------------------------------------------------------
(* Framed as a Sink. *)

\* Framed::start_send: [res, item, buffer, enc]
StartSendAlways(codec, buf, item) ==
    [res |-> "Ready", item |-> None, buffer |-> Encode(codec, item, buf),
     enc |-> Encode(codec, item, <<>>)]

StartSend(codec, buf, item) ==
    IF Len(buf) # 0
    THEN [res |-> "NotReady", item |-> Some(item), buffer |-> buf, enc |-> <<>>]
    ELSE [res |-> "Ready", item |-> None, buffer |-> Encode(codec, item, buf),
          enc |-> Encode(codec, item, <<>>)]

\* the result of poll_complete after a write of n > 0 bytes left rest
AfterWrite(rest) == IF Len(rest) = 0 THEN "NotReady" ELSE "Ready"

\* Framed::poll_complete: every outcome the stream allows, each
\* [res, err, buffer, outbox, io, n]
PollComplete(kind, buf, out) ==
    {IF w.io # "Ok"
     THEN [res |-> TryPollIo(w.io).res, err |-> TryPollIo(w.io).err,
           buffer |-> buf, outbox |-> out, io |-> w.io, n |-> 0]
     ELSE IF w.n = 0
     THEN [res |-> "Ready", err |-> "", buffer |-> buf, outbox |-> out,
           io |-> "Ok", n |-> 0]
     ELSE [res |-> AfterWrite(Drop(buf, w.n)), err |-> "",
           buffer |-> Drop(buf, w.n),
           outbox |-> out \o Take(buf, w.n), io |-> "Ok", n |-> w.n]
     : w \in WriteResults(kind, buf)}

---------------------------------------------------------------------------
(* SendOne over a Framed sink. *)

\* a SendOne that does not put a refused item back
RECURSIVE SendOnePollDrop(_, _, _, _, _)
SendOnePollDrop(codec, kind, val, buf, out) ==
    IF val # None
    THEN LET ss == StartSend(codec, buf, val[1])
         IN  IF ss.res = "NotReady"
             THEN UNION {
                    IF pc.res = "Ready"
                    THEN SendOnePollDrop(codec, kind, None, pc.buffer, pc.outbox)
                    ELSE {[res |-> pc.res, err |-> pc.err, value |-> None,
                           buffer |-> pc.buffer, outbox |-> pc.outbox,
                           enc |-> <<>>]}
                    : pc \in PollComplete(kind, ss.buffer, out)}
             ELSE {[o EXCEPT !.enc = ss.enc \o o.enc]
                    : o \in SendOnePollDrop(codec, kind, None, ss.buffer, out)}
    ELSE {[res |-> pc.res, err |-> pc.err, value |-> None,
           buffer |-> pc.buffer, outbox |-> pc.outbox, enc |-> <<>>]
           : pc \in PollComplete(kind, buf, out)}

\* SendOne::poll: every outcome the stream allows, each
\* [res, err, value, buffer, outbox, enc]; enc is what the encoder appended
RECURSIVE SendOnePoll(_, _, _, _, _)
SendOnePoll(codec, kind, val, buf, out) ==
    IF val # None
    THEN LET ss == StartSend(codec, buf, val[1])
         IN  IF ss.res = "NotReady"
             THEN UNION {
                    IF pc.res = "Ready"
                    THEN SendOnePoll(codec, kind, ss.item, pc.buffer, pc.outbox)
                    ELSE {[res |-> pc.res, err |-> pc.err, value |-> ss.item,
                           buffer |-> pc.buffer, outbox |-> pc.outbox,
                           enc |-> <<>>]}
                    : pc \in PollComplete(kind, ss.buffer, out)}
             ELSE {[o EXCEPT !.enc = ss.enc \o o.enc]
                    : o \in SendOnePoll(codec, kind, None, ss.buffer, out)}
    ELSE {[res |-> pc.res, err |-> pc.err, value |-> None,
           buffer |-> pc.buffer, outbox |-> pc.outbox, enc |-> <<>>]
           : pc \in PollComplete(kind, buf, out)}

---------------------------------------------------------------------------
(* The handler: the echo handler of examples/line_server.rs, behind a       *)
(* response Pollable that may stay NotReady for some polls or fail.         *)

\* Handler::handle: Ok(request).into_pollable()
Handle(request) == request

---------------------------------------------------------------------------
(* The state after construction. *)

NoRet == [res |-> "None", err |-> "", item |-> None]
NoCall == [op |-> "none", item |-> <<>>, buffer |-> <<>>, inbox |-> <<>>,
           outbox |-> <<>>, io |-> "", n |-> 0, inner |-> "", polled |-> {}]
NoPollable == [resp |-> <<>>, delay |-> 0]

NoRt == [frames |-> <<>>, sent |-> 0, got |-> <<>>]
NoMock == [k |-> 0, out |-> "", val |-> 0, done |-> FALSE, late |-> FALSE,
           fused |-> FALSE]
NoJoin == [state |-> "None", left |-> NoMock, right |-> NoMock,
           lv |-> None, rv |-> None]
NoAndThen == [state |-> "None", first |-> NoMock, second |-> NoMock,
              fcalls |-> 0, farg |-> None]

auxVars == <<rt, join, andThen>>

NoMapErr == [inner |-> NoMock, f |-> None, fcalls |-> 0, farg |-> None]
NoPool == [state |-> "None"]
NoServer == [state |-> "None"]
NoTwister == [state |-> "None"]

NoHttp == [op |-> "None"]
NoFuse == [state |-> "None"]
NoSendOne == [pc |-> "None"]

extVars == <<mapErr, polls, pool, server, twister, http, fuse, sendOne>>

\* no MapErr, no pool, no server and no Twister in this run
NoExt ==
    /\ mapErr = NoMapErr
    /\ polls = <<>>
    /\ pool = NoPool
    /\ server = NoServer
    /\ twister = NoTwister /\ http = NoHttp /\ fuse = NoFuse /\ sendOne = NoSendOne

\* no round-trip driver and no combinator in this run
NoAux == rt = NoRt /\ join = NoJoin /\ andThen = NoAndThen

\* Framed::new over a stream whose peer sends inp
StreamWith(inp) ==
    /\ inbox = inp
    /\ input0 = inp
    /\ outbox = <<>>
    /\ buffer = <<>>
    /\ ret = NoRet
    /\ call = NoCall
    /\ drained = <<>>
    /\ encoded = <<>>
    /\ faulted = FALSE

\* Connection::new(transport, handler)
InitWith(inp) ==
    /\ StreamWith(inp)
    /\ conn = "Reading"
    /\ pollable = NoPollable
    /\ value = None
    /\ requests = <<>>
    /\ NoAux /\ NoExt

\* the record of a call that starts in the current state
Called(op, item, io, n, inner) ==
    [op |-> op, item |-> item, buffer |-> buffer, inbox |-> inbox,
     outbox |-> outbox, io |-> io, n |-> n, inner |-> inner, polled |-> {}]

Inputs == SeqsUpTo(Bytes, MaxIn)

Init == \E inp \in Inputs : InitWith(inp)

connVars == <<conn, pollable, value, requests>>

---------------------------------------------------------------------------
(* A caller that uses one Framed<stream, LineCodec> directly. *)

\* framed.poll()
CallFramedPoll ==
    /\ \E o \in FramedPoll("line", "net", buffer, inbox) :
        /\ buffer' = o.buffer
        /\ inbox' = o.inbox
        /\ drained' = drained \o o.drained
        /\ ret' = [res |-> o.res, err |-> o.err, item |-> o.item]
        /\ call' = Called("poll", <<>>, o.io, 0, "")
        /\ faulted' = (faulted \/ o.res = "Err")
    /\ UNCHANGED <<extVars, outbox, input0, encoded, connVars, auxVars>>

\* framed.start_send(item)
CallStartSend ==
    /\ Len(encoded) < MaxOut
    /\ \E item \in SeqsUpTo(Letters, MaxItem) :
        LET o == StartSend("line", buffer, item) IN
        /\ buffer' = o.buffer
        /\ encoded' = encoded \o o.enc
        /\ ret' = [res |-> o.res, err |-> "", item |-> o.item]
        /\ call' = Called("start_send", item, "", 0, "")
    /\ UNCHANGED <<extVars, inbox, outbox, input0, drained, faulted, connVars, auxVars>>

\* framed.poll_complete()
CallPollComplete ==
    /\ \E o \in PollComplete("net", buffer, outbox) :
        /\ buffer' = o.buffer
        /\ outbox' = o.outbox
        /\ ret' = [res |-> o.res, err |-> o.err, item |-> None]
        /\ call' = Called("poll_complete", <<>>, o.io, o.n, "")
        /\ faulted' = (faulted \/ o.res = "Err")
    /\ UNCHANGED <<extVars, inbox, input0, drained, encoded, connVars, auxVars>>

NextPoll == CallFramedPoll

SpecPoll == Init /\ [][NextPoll]_vars

InitFramed == \E inp \in SeqsUpTo(Bytes, MaxInSink) : InitWith(inp)

NextFramed == CallFramedPoll \/ CallStartSend \/ CallPollComplete

SpecFramed == InitFramed /\ [][NextFramed]_vars

---------------------------------------------------------------------------
(* Connection<H, Framed<stream, LineCodec>>::poll, one action per variant. *)

Returned(res, err) == [res |-> res, err |-> err, item |-> None]

\* a poll that leaves mem::replace's Done behind: *self = next is missing
NextVariantDone(res, next) == "Done"

\* the variant a poll leaves behind: the next one, or Done on Err
NextVariant(res, next) == IF res = "Err" THEN "Done" ELSE next

\* Connection::Reading(stream, handler)
PollReading ==
    /\ conn = "Reading"
    /\ \E o \in FramedPoll("line", "net", buffer, inbox) :
        /\ buffer' = o.buffer
        /\ inbox' = o.inbox
        /\ drained' = drained \o o.drained
        /\ call' = Called("Reading", <<>>, o.io, 0, o.res)
        /\ faulted' = (faulted \/ o.res = "Err")
        /\ IF o.res = "Ready"
           THEN /\ \E d \in 0..MaxDelay :
                     pollable' = [resp |-> Handle(o.item[1]), delay |-> d]
                /\ requests' = Append(requests, o.item[1])
                /\ conn' = "Handling"
                /\ ret' = Returned("NotReady", "")
           ELSE /\ conn' = NextVariant(o.res, "Reading")
                /\ ret' = Returned(o.res, o.err)
                /\ UNCHANGED <<pollable, requests>>
    /\ UNCHANGED <<extVars, outbox, input0, encoded, value, auxVars>>

\* Connection::Handling(s, h, pollable)
PollHandling ==
    /\ conn = "Handling"
    /\ \/ /\ pollable.delay > 0
          /\ pollable' = [pollable EXCEPT !.delay = @ - 1]
          /\ conn' = "Handling"
          /\ ret' = Returned("NotReady", "")
          /\ call' = Called("Handling", <<>>, "", 0, "NotReady")
          /\ UNCHANGED <<value, faulted>>
       \/ /\ pollable.delay = 0
          /\ pollable' = NoPollable
          /\ value' = Some(pollable.resp)
          /\ conn' = "Writing"
          /\ ret' = Returned("NotReady", "")
          /\ call' = Called("Handling", <<>>, "", 0, "Ready")
          /\ UNCHANGED faulted
       \/ /\ pollable' = NoPollable
          /\ conn' = NextVariant("Err", "Handling")
          /\ ret' = Returned("Err", "Handler")
          /\ call' = Called("Handling", <<>>, "", 0, "Err")
          /\ faulted' = TRUE
          /\ UNCHANGED value
    /\ UNCHANGED <<extVars, inbox, outbox, buffer, input0, drained, encoded, requests,
                   auxVars>>

\* Connection::Writing(sink, h)
PollWriting ==
    /\ conn = "Writing"
    /\ \E o \in SendOnePoll("line", "net", value, buffer, outbox) :
        /\ buffer' = o.buffer
        /\ outbox' = o.outbox
        /\ encoded' = encoded \o o.enc
        /\ value' = o.value
        /\ call' = Called("Writing", value, "", 0, o.res)
        /\ faulted' = (faulted \/ o.res = "Err")
        /\ conn' = NextVariant(o.res, IF o.res = "Ready" THEN "Reading" ELSE "Writing")
        /\ ret' = IF o.res = "Err" THEN Returned("Err", o.err)
                                  ELSE Returned("NotReady", "")
    /\ UNCHANGED <<extVars, inbox, input0, drained, pollable, requests, auxVars>>

\* Connection::Done => panic!("Poll called on finished result")
PollDone ==
    /\ conn = "Done"
    /\ ret.res # "Panic"
    /\ ret' = Returned("Panic", "")
    /\ call' = Called("Done", <<>>, "", 0, "")
    /\ UNCHANGED <<extVars, inbox, outbox, buffer, input0, drained, encoded, connVars,
                   faulted, auxVars>>

Next == PollReading \/ PollHandling \/ PollWriting \/ PollDone

Spec == Init /\ [][Next]_vars

---------------------------------------------------------------------------
(* A round trip through one Framed<duplex, length-prefixed codec>: the      *)
(* driver sends each frame (start_send, then poll_complete until the bytes  *)
(* are out), then polls the same Framed for frames.  What is written to the *)
(* in-memory duplex stream is what a later read returns.                    *)

Frames == SeqsUpTo(Bytes, MaxFrameLen)

InitRoundTrip ==
    /\ StreamWith(<<>>) /\ NoExt
    /\ conn = "None"
    /\ pollable = NoPollable
    /\ value = None
    /\ requests = <<>>
    /\ \E fs \in SeqsUpTo(Frames, MaxFrames) :
          rt = [frames |-> fs, sent |-> 0, got |-> <<>>]
    /\ join = NoJoin
    /\ andThen = NoAndThen

\* every frame has been accepted and its bytes written
AllWritten == rt.sent = Len(rt.frames) /\ Len(outbox) = Len(encoded)

\* framed.start_send(frames[sent])
RtSend ==
    /\ rt.sent < Len(rt.frames)
    /\ LET item == rt.frames[rt.sent + 1]
           o    == StartSend("len", buffer, item)
       IN  /\ buffer' = o.buffer
           /\ encoded' = encoded \o o.enc
           /\ ret' = [res |-> o.res, err |-> "", item |-> o.item]
           /\ call' = Called("start_send", item, "", 0, "")
           /\ rt' = [rt EXCEPT !.sent = IF o.res = "Ready" THEN @ + 1 ELSE @]
    /\ UNCHANGED <<extVars, inbox, outbox, input0, drained, faulted, connVars, join,
                   andThen>>

\* framed.poll_complete(), while bytes are buffered
RtFlush ==
    /\ ~AllWritten
    /\ buffer # <<>>
    /\ \E o \in PollComplete("mem", buffer, outbox) :
        /\ buffer' = o.buffer
        /\ outbox' = o.outbox
        /\ inbox' = inbox \o Take(buffer, o.n)
        /\ input0' = input0 \o Take(buffer, o.n)
        /\ ret' = [res |-> o.res, err |-> o.err, item |-> None]
        /\ call' = Called("poll_complete", <<>>, o.io, o.n, "")
    /\ UNCHANGED <<extVars, drained, encoded, faulted, connVars, auxVars>>

\* framed.poll(), once everything is written, until it fails
RtPoll ==
    /\ AllWritten
    /\ ret.res # "Err"
    /\ \E o \in FramedPoll("len", "mem", buffer, inbox) :
        /\ buffer' = o.buffer
        /\ inbox' = o.inbox
        /\ drained' = drained \o o.drained
        /\ ret' = [res |-> o.res, err |-> o.err, item |-> o.item]
        /\ call' = Called("poll", <<>>, o.io, 0, "")
        /\ faulted' = (faulted \/ o.res = "Err")
        /\ rt' = [rt EXCEPT !.got = @ \o o.item]
    /\ UNCHANGED <<extVars, outbox, input0, encoded, connVars, join, andThen>>

NextRoundTrip == RtSend \/ RtFlush \/ RtPoll

SpecRoundTrip == InitRoundTrip /\ [][NextRoundTrip]_vars

---------------------------------------------------------------------------
(* An inner Pollable of a combinator, after the YieldAfter of the tests:    *)
(* NotReady for k polls, then its outcome (Ready(val) or Err).  Polled      *)
(* after that, a fused one halts and the other returns its outcome again,   *)
(* as YieldAfter does.                                                      *)

Mocks == [k : 0..MaxK, out : {"Ready", "Err"}, val : {1}, done : {FALSE},
          late : {FALSE}, fused : BOOLEAN]

\* Pollable::poll of an inner Pollable: [res, m] with m its next state
MockPoll(m) ==
    IF m.done
    THEN [res |-> IF m.fused THEN "Panic" ELSE m.out,
          m |-> [m EXCEPT !.late = TRUE]]
    ELSE IF m.k > 0
    THEN [res |-> "NotReady", m |-> [m EXCEPT !.k = @ - 1]]
    ELSE [res |-> m.out, m |-> [m EXCEPT !.done = TRUE]]

---------------------------------------------------------------------------
(* Join::poll *)

\* a Join that polls the right side only once the left side is Ready
JoinPollSerial(j) ==
    LET l == MockPoll(j.left)
        r == MockPoll(j.right)
    IN  CASE j.state = "Niether" ->
               IF l.res = "Ready"
               THEN [res |-> "NotReady", item |-> None,
                     j |-> [j EXCEPT !.left = l.m, !.state = "Left",
                                     !.lv = Some(l.m.val)],
                     polled |-> {"left"}]
               ELSE [res |-> l.res, item |-> None,
                     j |-> [j EXCEPT !.left = l.m,
                              !.state = IF l.res = "NotReady" THEN @ ELSE "Done"],
                     polled |-> {"left"}]
          [] j.state = "Left" ->
               IF r.res = "Ready"
               THEN [res |-> "Ready", item |-> Some(<<j.lv[1], r.m.val>>),
                     j |-> [j EXCEPT !.right = r.m, !.state = "Done"],
                     polled |-> {"right"}]
               ELSE [res |-> r.res, item |-> None,
                     j |-> [j EXCEPT !.right = r.m,
                              !.state = IF r.res = "NotReady" THEN @ ELSE "Done"],
                     polled |-> {"right"}]
          [] OTHER ->
               [res |-> "Panic", item |-> None, j |-> j, polled |-> {}]

\* a Join that keeps no half-done state and polls both sides every time
JoinPollBoth(j) ==
    LET l == MockPoll(j.left)
        r == MockPoll(j.right)
        both == [j EXCEPT !.left = l.m, !.right = r.m]
    IN  IF j.state # "Niether"
        THEN [res |-> "Panic", item |-> None, j |-> j, polled |-> {}]
        ELSE IF l.res \in {"Err", "Panic"}
        THEN [res |-> l.res, item |-> None,
              j |-> [j EXCEPT !.left = l.m, !.state = "Done"], polled |-> {"left"}]
        ELSE IF r.res \in {"Err", "Panic"}
        THEN [res |-> r.res, item |-> None,
              j |-> [both EXCEPT !.state = "Done"], polled |-> {"left", "right"}]
        ELSE IF l.res = "Ready" /\ r.res = "Ready"
        THEN [res |-> "Ready", item |-> Some(<<l.m.val, r.m.val>>),
              j |-> [both EXCEPT !.state = "Done"], polled |-> {"left", "right"}]
        ELSE [res |-> "NotReady", item |-> None, j |-> both,
              polled |-> {"left", "right"}]

\* a Join that polls the right side even when the left side has erred
JoinPollEager(j) ==
    LET l == MockPoll(j.left)
        r == MockPoll(j.right)
        o == JoinPollBoth(j)
    IN  IF j.state = "Niether" /\ l.res = "Err"
        THEN [o EXCEPT !.j.right = r.m, !.polled = {"left", "right"}]
        ELSE o

\* Join::poll from state j: [res, item, j, polled]; mem::replace leaves Done
\* behind on every return that does not assign self.state
JoinPoll(j) ==
    LET l == MockPoll(j.left)
        r == MockPoll(j.right)
        done == [j EXCEPT !.state = "Done"]
    IN  CASE j.state = "Niether" ->
               IF l.res \in {"Err", "Panic"}
               THEN [res |-> l.res, item |-> None,
                     j |-> [done EXCEPT !.left = l.m], polled |-> {"left"}]
               ELSE IF r.res \in {"Err", "Panic"}
               THEN [res |-> r.res, item |-> None,
                     j |-> [done EXCEPT !.left = l.m, !.right = r.m],
                     polled |-> {"left", "right"}]
               ELSE IF l.res = "Ready" /\ r.res = "Ready"
               THEN [res |-> "Ready", item |-> Some(<<l.m.val, r.m.val>>),
                     j |-> [done EXCEPT !.left = l.m, !.right = r.m],
                     polled |-> {"left", "right"}]
               ELSE [res |-> "NotReady", item |-> None,
                     j |-> [j EXCEPT !.left = l.m, !.right = r.m,
                              !.state = IF l.res = "Ready" THEN "Left"
                                        ELSE IF r.res = "Ready" THEN "Right"
                                        ELSE "Niether",
                              !.lv = IF l.res = "Ready" THEN Some(l.m.val) ELSE None,
                              !.rv = IF l.res # "Ready" /\ r.res = "Ready"
                                     THEN Some(r.m.val) ELSE None],
                     polled |-> {"left", "right"}]
          [] j.state = "Left" ->
               IF r.res = "Ready"
               THEN [res |-> "Ready", item |-> Some(<<j.lv[1], r.m.val>>),
                     j |-> [done EXCEPT !.right = r.m, !.lv = None],
                     polled |-> {"right"}]
               ELSE IF r.res = "NotReady"
               THEN [res |-> "NotReady", item |-> None,
                     j |-> [j EXCEPT !.right = r.m], polled |-> {"right"}]
               ELSE [res |-> r.res, item |-> None,
                     j |-> [done EXCEPT !.right = r.m, !.lv = None],
                     polled |-> {"right"}]
          [] j.state = "Right" ->
               IF l.res = "Ready"
               THEN [res |-> "Ready", item |-> Some(<<l.m.val, j.rv[1]>>),
                     j |-> [done EXCEPT !.left = l.m, !.rv = None],
                     polled |-> {"left"}]
               ELSE IF l.res = "NotReady"
               THEN [res |-> "NotReady", item |-> None,
                     j |-> [j EXCEPT !.left = l.m], polled |-> {"left"}]
               ELSE [res |-> l.res, item |-> None,
                     j |-> [done EXCEPT !.left = l.m, !.rv = None],
                     polled |-> {"left"}]
          [] OTHER ->
               [res |-> "Panic", item |-> None, j |-> j, polled |-> {}]

---------------------------------------------------------------------------
(* AndThen::poll *)

\* the closure f: the second stage, built from the first stage's value
F(a, v) == [a.second EXCEPT !.val = v + 1]

\* an AndThen that leaves the first poll of the second stage to the next call
AndThenPollLazy(a) ==
    CASE a.state = "First" ->
           LET l == MockPoll(a.first) IN
           IF l.res = "Ready"
           THEN [res |-> "NotReady", item |-> None,
                 a |-> [a EXCEPT !.first = l.m, !.second = F(a, l.m.val),
                          !.fcalls = @ + 1, !.farg = Some(l.m.val),
                          !.state = "Second"],
                 polled |-> {"first"}]
           ELSE [res |-> l.res, item |-> None,
                 a |-> [a EXCEPT !.first = l.m,
                          !.state = IF l.res = "Err" THEN "Done" ELSE @],
                 polled |-> {"first"}]
      [] a.state = "Second" ->
           LET r == MockPoll(a.second) IN
           [res |-> r.res,
            item |-> IF r.res = "Ready" THEN Some(r.m.val) ELSE None,
            a |-> [a EXCEPT !.second = r.m], polled |-> {"second"}]
      [] OTHER ->
           [res |-> "Panic", item |-> None, a |-> a, polled |-> {}]

\* an AndThen that stays in First after it has called f
AndThenPollAgain(a) ==
    IF a.state # "First"
    THEN [res |-> "Panic", item |-> None, a |-> a, polled |-> {}]
    ELSE LET l == MockPoll(a.first) IN
         IF l.res # "Ready"
         THEN [res |-> l.res, item |-> None,
               a |-> [a EXCEPT !.first = l.m,
                        !.state = IF l.res = "Err" THEN "Done" ELSE @],
               polled |-> {"first"}]
         ELSE LET r == MockPoll(F(a, l.m.val))
                  called == [a EXCEPT !.first = l.m, !.second = r.m,
                               !.fcalls = @ + 1, !.farg = Some(l.m.val)]
              IN  [res |-> r.res,
                   item |-> IF r.res = "Ready" THEN Some(r.m.val) ELSE None,
                   a |-> [called EXCEPT !.state = IF r.res = "NotReady"
                                                  THEN "First" ELSE "Done"],
                   polled |-> {"first", "second"}]

\* AndThen::poll from state a: [res, item, a, polled]
AndThenPoll(a) ==
    CASE a.state = "First" ->
           LET l == MockPoll(a.first) IN
           IF l.res = "NotReady"
           THEN [res |-> "NotReady", item |-> None,
                 a |-> [a EXCEPT !.first = l.m], polled |-> {"first"}]
           ELSE IF l.res \in {"Err", "Panic"}
           THEN [res |-> l.res, item |-> None,
                 a |-> [a EXCEPT !.first = l.m,
                          !.state = IF l.res = "Err" THEN "Done" ELSE @],
                 polled |-> {"first"}]
           ELSE LET right == F(a, l.m.val)
                    r == MockPoll(right)
                    called == [a EXCEPT !.first = l.m, !.second = r.m,
                                 !.fcalls = @ + 1, !.farg = Some(l.m.val)]
                IN  IF r.res = "NotReady"
                    THEN [res |-> "NotReady", item |-> None,
                          a |-> [called EXCEPT !.state = "Second"],
                          polled |-> {"first", "second"}]
                    ELSE [res |-> r.res,
                          item |-> IF r.res = "Ready" THEN Some(r.m.val) ELSE None,
                          a |-> [called EXCEPT !.state = "Done"],
                          polled |-> {"first", "second"}]
      [] a.state = "Second" ->
           LET r == MockPoll(a.second) IN
           [res |-> r.res,
            item |-> IF r.res = "Ready" THEN Some(r.m.val) ELSE None,
            a |-> [a EXCEPT !.second = r.m], polled |-> {"second"}]
      [] OTHER ->
           [res |-> "Panic", item |-> None, a |-> a, polled |-> {}]

---------------------------------------------------------------------------
(* One Pollable polled by a caller that keeps polling, whatever it got,     *)
(* until the process halts: a Join, an AndThen, a SendOne over a Framed     *)
(* sink, or a Connection.                                                   *)

InitJoin ==
    /\ StreamWith(<<>>)
    /\ conn = "None" /\ pollable = NoPollable /\ value = None /\ requests = <<>>
    /\ rt = NoRt /\ andThen = NoAndThen /\ NoExt
    /\ \E l, r \in Mocks :
          join = [state |-> "Niether", left |-> l, right |-> r,
                  lv |-> None, rv |-> None]

InitAndThen ==
    /\ StreamWith(<<>>)
    /\ conn = "None" /\ pollable = NoPollable /\ value = None /\ requests = <<>>
    /\ rt = NoRt /\ join = NoJoin /\ NoExt
    /\ \E l, r \in Mocks :
          andThen = [state |-> "First", first |-> l, second |-> r,
                     fcalls |-> 0, farg |-> None]

\* framed.send_one(item)
InitSendOne ==
    /\ StreamWith(<<>>)
    /\ conn = "SendOne" /\ pollable = NoPollable /\ requests = <<>>
    /\ NoAux /\ NoExt
    /\ \E item \in SeqsUpTo(Letters, MaxItem) : value = Some(item)

InitMono ==
    \/ InitJoin
    \/ InitAndThen
    \/ InitSendOne
    \/ \E inp \in SeqsUpTo(Bytes, MaxInSink) : InitWith(inp)

Halted == ret.res = "Panic"

\* join.poll()
CallJoinPoll ==
    /\ join.state # "None"
    /\ ~Halted
    /\ LET o == JoinPoll(join) IN
        /\ join' = o.j
        /\ ret' = [res |-> o.res, err |-> "", item |-> o.item]
        /\ call' = [Called("Join", <<>>, "", 0, "") EXCEPT !.polled = o.polled]
    /\ UNCHANGED <<extVars, inbox, outbox, buffer, input0, drained, encoded, connVars,
                   faulted, rt, andThen>>

\* and_then.poll()
CallAndThenPoll ==
    /\ andThen.state # "None"
    /\ ~Halted
    /\ LET o == AndThenPoll(andThen) IN
        /\ andThen' = o.a
        /\ ret' = [res |-> o.res, err |-> "", item |-> o.item]
        /\ call' = [Called("AndThen", <<>>, "", 0, "") EXCEPT !.polled = o.polled]
    /\ UNCHANGED <<extVars, inbox, outbox, buffer, input0, drained, encoded, connVars,
                   faulted, rt, join>>

\* send_one.poll()
CallSendOnePoll ==
    /\ conn = "SendOne"
    /\ ~Halted
    /\ \E o \in SendOnePoll("line", "net", value, buffer, outbox) :
        /\ buffer' = o.buffer
        /\ outbox' = o.outbox
        /\ encoded' = encoded \o o.enc
        /\ value' = o.value
        /\ ret' = [res |-> o.res, err |-> o.err, item |-> None]
        /\ call' = [Called("SendOne", value, "", 0, "") EXCEPT !.polled = {"inner"}]
        /\ faulted' = (faulted \/ o.res = "Err")
    /\ UNCHANGED <<extVars, inbox, input0, drained, conn, pollable, requests, auxVars>>

NextMono ==
    \/ CallJoinPoll
    \/ CallAndThenPoll
    \/ CallSendOnePoll
    \/ PollReading
    \/ PollHandling
    \/ PollWriting
    \/ PollDone

SpecMono == InitMono /\ [][NextMono]_vars

---------------------------------------------------------------------------
(* MapErr::poll *)

\* the error of an inner Pollable, and the closure f of map_err
InnerErr == "e"
MapF(e) == "f(" \o e \o ")"

\* MapErr::poll from state m: [res, err, item, m, polled]
MapErrPoll(m) ==
    LET l == MockPoll(m.inner)
        after == [m EXCEPT !.inner = l.m]
    IN  IF l.res \in {"Ready", "NotReady", "Panic"}
        THEN [res |-> l.res, err |-> "",
              item |-> IF l.res = "Ready" THEN Some(l.m.val) ELSE None,
              m |-> after, polled |-> {"inner"}]
        ELSE IF m.f # None
        THEN [res |-> "Err", err |-> MapF(InnerErr), item |-> None,
              m |-> [after EXCEPT !.f = None, !.fcalls = @ + 1,
                                  !.farg = Some(InnerErr)],
              polled |-> {"inner"}]
        ELSE [res |-> "Panic", err |-> "", item |-> None, m |-> after,
              polled |-> {"inner"}]

---------------------------------------------------------------------------
(* One combinator polled by a caller that records what every poll() gave   *)
(* and what the inner objects answered in it, and that keeps polling until  *)
(* the process halts or it has polled MaxPolls times.                       *)

\* the most polls the recording caller makes
MaxPolls == 6

InitMapErr ==
    /\ StreamWith(<<>>)
    /\ conn = "None" /\ pollable = NoPollable /\ value = None /\ requests = <<>>
    /\ NoAux
    /\ polls = <<>> /\ pool = NoPool /\ server = NoServer /\ twister = NoTwister /\ http = NoHttp /\ fuse = NoFuse /\ sendOne = NoSendOne
    /\ \E i \in Mocks :
          mapErr = [inner |-> i, f |-> Some("f"), fcalls |-> 0, farg |-> None]

InitCombi == InitJoin \/ InitAndThen \/ InitMapErr

\* one entry of polls: the outer result and the inner results (a: the left,
\* first or only inner object, b: the right or second one; "" if not polled)
Polled(o, a, b, fcalls) ==
    [res |-> o.res, item |-> o.item, a |-> a, b |-> b, fcalls |-> fcalls]

\* join.poll(), recorded
PollJoin ==
    /\ join.state # "None"
    /\ ~Halted
    /\ Len(polls) < MaxPolls
    /\ LET o == JoinPoll(join) IN
        /\ join' = o.j
        /\ ret' = [res |-> o.res, err |-> "", item |-> o.item]
        /\ call' = [Called("Join", <<>>, "", 0, "") EXCEPT !.polled = o.polled]
        /\ polls' = Append(polls, Polled(o,
                IF "left" \in o.polled THEN MockPoll(join.left).res ELSE "",
                IF "right" \in o.polled THEN MockPoll(join.right).res ELSE "",
                0))
    /\ UNCHANGED <<inbox, outbox, buffer, input0, drained, encoded, connVars,
                   faulted, rt, andThen, mapErr, pool, server, twister, http, fuse, sendOne>>

\* and_then.poll(), recorded
PollAndThen ==
    /\ andThen.state # "None"
    /\ ~Halted
    /\ Len(polls) < MaxPolls
    /\ LET o == AndThenPoll(andThen)
           l == MockPoll(andThen.first)
           right == IF andThen.state = "First" THEN F(andThen, l.m.val)
                    ELSE andThen.second
       IN
        /\ andThen' = o.a
        /\ ret' = [res |-> o.res, err |-> "", item |-> o.item]
        /\ call' = [Called("AndThen", <<>>, "", 0, "") EXCEPT !.polled = o.polled]
        /\ polls' = Append(polls, Polled(o,
                IF "first" \in o.polled THEN l.res ELSE "",
                IF "second" \in o.polled THEN MockPoll(right).res ELSE "",
                o.a.fcalls))
    /\ UNCHANGED <<inbox, outbox, buffer, input0, drained, encoded, connVars,
                   faulted, rt, join, mapErr, pool, server, twister, http, fuse, sendOne>>

\* map_err.poll(), recorded
PollMapErr ==
    /\ mapErr.f # None \/ mapErr.fcalls > 0
    /\ ~Halted
    /\ Len(polls) < MaxPolls
    /\ LET o == MapErrPoll(mapErr) IN
        /\ mapErr' = o.m
        /\ ret' = [res |-> o.res, err |-> o.err, item |-> o.item]
        /\ call' = [Called("MapErr", <<>>, "", 0, "") EXCEPT !.polled = o.polled]
        /\ polls' = Append(polls, Polled(o, MockPoll(mapErr.inner).res, "",
                                         o.m.fcalls))
    /\ UNCHANGED <<inbox, outbox, buffer, input0, drained, encoded, connVars,
                   faulted, auxVars, pool, server, twister, http, fuse, sendOne>>

NextCombi == PollJoin \/ PollAndThen \/ PollMapErr

SpecCombi == InitCombi /\ [][NextCombi]_vars

---------------------------------------------------------------------------
(* ThreadPool: queue, connection_proc and pump_connections.  A stream is    *)
(* named by its place in the order of the queue calls (0, 1, ...); workers  *)
(* are numbered 0..N-1 as in senders and threads.  pump_connections is      *)
(* generic in the Pollable it polls, so a connection here is its stream's   *)
(* name and each poll of it gives any of NotReady, Ready and Err.           *)

\* the most workers of a pool, and the most streams queued in a run
MaxWorkers == 2
MaxStreams == 3

PollResults == {"NotReady", "Ready", "Err"}

\* a worker before its first loop iteration: `let mut connections = vec![]`
NoWorker == [connections |-> <<>>, recv |-> "", msg |-> None,
             before |-> <<>>, log |-> <<>>, iter |-> 0]

\* ThreadPool::new(n, proto, handler)
InitPool ==
    /\ StreamWith(<<>>)
    /\ conn = "None" /\ pollable = NoPollable /\ value = None /\ requests = <<>>
    /\ NoAux
    /\ mapErr = NoMapErr /\ polls = <<>> /\ server = NoServer
    /\ twister = NoTwister /\ http = NoHttp /\ fuse = NoFuse /\ sendOne = NoSendOne
    /\ \E n \in 1..MaxWorkers :
          pool = [state |-> "Pool", n |-> n, last_thread |-> 0, queued |-> 0,
                  chans |-> [w \in 0..(n - 1) |-> <<>>],
                  sent |-> [w \in 0..(n - 1) |-> <<>>],
                  workers |-> [w \in 0..(n - 1) |-> NoWorker]]

\* a queue that always sends to the same worker
NextThreadStay(last, n) == last

\* last_thread += 1; last_thread %= threads.len()
NextThread(last, n) == (last + 1) % n

\* pool.queue(stream)
Queue ==
    /\ pool.state = "Pool"
    /\ pool.queued < MaxStreams
    /\ LET w == pool.last_thread
           s == pool.queued
       IN  pool' = [pool EXCEPT !.chans[w] = Append(@, s),
                                !.sent[w] = Append(@, s),
                                !.last_thread = NextThread(w, pool.n),
                                !.queued = @ + 1]
    /\ UNCHANGED <<inbox, outbox, buffer, ret, call, input0, drained, encoded,
                   connVars, faulted, auxVars, mapErr, polls, server, twister, http, fuse, sendOne>>

\* a pump that keeps a connection whatever its poll returned, short of Ready
KeepsErr(res) == res \in {"NotReady", "Err"}

\* `if let Ok(PollResult::NotReady) = current.poll()`: the slot is refilled
Keeps(res) == res = "NotReady"

\* a pump that ends its pass at the first connection that is not ready
PollSlotsUntilBlocked(conns, outs) ==
    LET blocked == {i \in 1..Len(conns) : outs[i] = "NotReady"}
        last == IF blocked = {} THEN Len(conns)
                ELSE CHOOSE i \in blocked : \A j \in blocked : i <= j
    IN  [slots |-> [i \in 1..Len(conns) |->
                       IF i > last \/ Keeps(outs[i]) THEN conns[i] ELSE None],
         log |-> [i \in 1..last |-> [id |-> conns[i][1].id, res |-> outs[i]]]]

\* the for loop of pump_connections over slots that are all Some: slot i is
\* taken, polled once (outs[i] is what the poll returns) and refilled or left
\* None; log is the polls made, in order
PollSlots(conns, outs) ==
    [slots |-> [i \in 1..Len(conns) |->
                   IF Keeps(outs[i]) THEN conns[i] ELSE None],
     log |-> [i \in 1..Len(conns) |-> [id |-> conns[i][1].id, res |-> outs[i]]]]

\* a removal that pops the last slot whatever n is
RemoveLast(conns, n) == Take(conns, Len(conns) - 1)

\* Vec::swap_remove(n), n counted from 1: the last element takes slot n
SwapRemove(conns, n) ==
    IF n = Len(conns) THEN Take(conns, Len(conns) - 1)
    ELSE [Take(conns, Len(conns) - 1) EXCEPT ![n] = conns[Len(conns)]]

\* the while loop of pump_connections, with n slots still to look at
RECURSIVE Compact(_, _)
Compact(conns, n) ==
    IF n = 0 THEN conns
    ELSE Compact(IF conns[n] = None THEN SwapRemove(conns, n) ELSE conns,
                 n - 1)

\* pump_connections(&mut connections), the polls returning outs
PumpConnections(conns, outs) ==
    LET p == PollSlots(conns, outs)
    IN  [connections |-> Compact(p.slots, Len(p.slots)), log |-> p.log]

\* a worker that never waits in recv: it uses try_recv in every iteration
WorkerLoopNoWait(w) ==
    /\ pool.state = "Pool"
    /\ LET wk == pool.workers[w]
           ch == pool.chans[w]
           blocking == FALSE
       IN
        /\ blocking => ch # <<>>
        /\ LET msg == IF ch # <<>> THEN Some(Head(ch)) ELSE None
               conns == IF msg # None
                        THEN Append(wk.connections, Some([id |-> msg[1]]))
                        ELSE wk.connections
           IN  \E outs \in [1..Len(conns) -> PollResults] :
                 LET p == PumpConnections(conns, outs) IN
                 pool' = [pool EXCEPT
                    !.chans[w] = IF ch # <<>> THEN Tail(ch) ELSE ch,
                    !.workers[w] =
                        [connections |-> p.connections,
                         recv |-> IF blocking THEN "recv" ELSE "try_recv",
                         msg |-> msg,
                         before |-> [i \in 1..Len(conns) |-> conns[i][1].id],
                         log |-> p.log,
                         iter |-> 1 - wk.iter]]
    /\ UNCHANGED <<inbox, outbox, buffer, ret, call, input0, drained, encoded,
                   connVars, faulted, auxVars, mapErr, polls, server, twister, http, fuse, sendOne>>

\* a worker that looks at its channel only when it has no connection
WorkerLoopIdleOnly(w) ==
    /\ pool.state = "Pool"
    /\ LET wk == pool.workers[w]
           ch == pool.chans[w]
           blocking == Len(wk.connections) = 0
       IN
        /\ blocking => ch # <<>>
        /\ LET msg == IF blocking THEN Some(Head(ch)) ELSE None
               conns == IF msg # None
                        THEN Append(wk.connections, Some([id |-> msg[1]]))
                        ELSE wk.connections
           IN  \E outs \in [1..Len(conns) -> PollResults] :
                 LET p == PumpConnections(conns, outs) IN
                 pool' = [pool EXCEPT
                    !.chans[w] = IF blocking THEN Tail(ch) ELSE ch,
                    !.workers[w] =
                        [connections |-> p.connections,
                         recv |-> IF blocking THEN "recv" ELSE "try_recv",
                         msg |-> msg,
                         before |-> [i \in 1..Len(conns) |-> conns[i][1].id],
                         log |-> p.log,
                         iter |-> 1 - wk.iter]]
    /\ UNCHANGED <<inbox, outbox, buffer, ret, call, input0, drained, encoded,
                   connVars, faulted, auxVars, mapErr, polls, server, twister, http, fuse, sendOne>>

\* one iteration of the loop of connection_proc in worker w: a blocking recv
\* if it has no connection, else try_recv; the stream received is bound and
\* pushed; then one pump pass
WorkerLoop(w) ==
    /\ pool.state = "Pool"
    /\ LET wk == pool.workers[w]
           ch == pool.chans[w]
           blocking == Len(wk.connections) = 0
       IN
        /\ blocking => ch # <<>>
        /\ LET msg == IF ch # <<>> THEN Some(Head(ch)) ELSE None
               conns == IF msg # None
                        THEN Append(wk.connections, Some([id |-> msg[1]]))
                        ELSE wk.connections
           IN  \E outs \in [1..Len(conns) -> PollResults] :
                 LET p == PumpConnections(conns, outs) IN
                 pool' = [pool EXCEPT
                    !.chans[w] = IF ch # <<>> THEN Tail(ch) ELSE ch,
                    !.workers[w] =
                        [connections |-> p.connections,
                         recv |-> IF blocking THEN "recv" ELSE "try_recv",
                         msg |-> msg,
                         before |-> [i \in 1..Len(conns) |-> conns[i][1].id],
                         log |-> p.log,
                         iter |-> 1 - wk.iter]]
    /\ UNCHANGED <<inbox, outbox, buffer, ret, call, input0, drained, encoded,
                   connVars, faulted, auxVars, mapErr, polls, server, twister, http, fuse, sendOne>>

NextPool ==
    \/ Queue
    \/ \E w \in 0..(MaxWorkers - 1) : w < pool.n /\ WorkerLoop(w)

SpecPool == InitPool /\ [][NextPool]_vars

\* every worker thread is scheduled again and again, and a poll it makes
\* returns: the next iteration of its loop (iter is its parity) is not put
\* off forever, whatever the polls in it return
SpecPoolFair ==
    /\ InitPool
    /\ [][NextPool]_vars
    /\ \A w \in 0..(MaxWorkers - 1) : WF_vars(w < pool.n /\ WorkerLoop(w))

---------------------------------------------------------------------------
(* TcpServer::serve.  Clients are numbered in the order they connect.  The  *)
(* connection serve polls is an AndThen over the bound transport and a      *)
(* Connection, and Connection::poll returns NotReady or Err and never       *)
(* Ready, so these are the results of conn.poll() here.                     *)

\* the most clients that connect in a run
MaxClients == 4

\* a TcpStream as listener.incoming() yields it: in blocking mode
Accepted(id) == [id |-> id, nonblocking |-> FALSE]

\* TcpServer::new(proto).serve(addr, f) after TcpListener::bind succeeded
InitServe ==
    /\ StreamWith(<<>>)
    /\ conn = "None" /\ pollable = NoPollable /\ value = None /\ requests = <<>>
    /\ NoAux
    /\ mapErr = NoMapErr /\ polls = <<>> /\ pool = NoPool
    /\ twister = NoTwister /\ http = NoHttp /\ fuse = NoFuse /\ sendOne = NoSendOne
    /\ server = [state |-> "Serve", pc |-> "Accepting", connected |-> 0,
                 backlog |-> <<>>, streams |-> <<>>, forwarded |-> <<>>,
                 closed |-> {}, variant |-> "", last |-> ""]

serveFrame == <<inbox, outbox, buffer, ret, call, input0, drained, encoded,
                connVars, faulted, auxVars, mapErr, polls, pool, twister, http, fuse, sendOne>>

\* a client connects to the listening socket
ClientConnect ==
    /\ server.state = "Serve"
    /\ server.connected < MaxClients
    /\ server' = [server EXCEPT !.connected = @ + 1,
                                !.backlog = Append(@, server.connected)]
    /\ UNCHANGED serveFrame

\* a client that has connected closes its end
ClientClose ==
    /\ server.state = "Serve"
    /\ \E c \in 0..(server.connected - 1) :
          /\ c \notin server.closed
          /\ server' = [server EXCEPT !.closed = @ \cup {c}]
    /\ UNCHANGED serveFrame

\* the next item of listener.incoming(): `stream?` returns the accept error
\* from serve, else the stream is bound into the connection to poll
ServeAccept ==
    /\ server.state = "Serve"
    /\ server.pc = "Accepting"
    /\ server.backlog # <<>>
    /\ \/ server' = [server EXCEPT !.pc = "Polling",
                        !.backlog = Tail(@),
                        !.streams = Append(@, Accepted(Head(server.backlog))),
                        !.variant = "First",
                        !.last = "Accepted"]
       \/ server' = [server EXCEPT !.pc = "Returned", !.backlog = Tail(@),
                                   !.last = "AcceptErr"]
    /\ UNCHANGED serveFrame

\* one iteration of the inner loop: conn.poll(), then panic! on Err and
\* yield_now() on NotReady
ServePoll ==
    /\ server.state = "Serve"
    /\ server.pc = "Polling"
    /\ \/ \E v \in {"Reading", "Handling", "Writing"} :
             server' = [server EXCEPT !.variant = v, !.last = "NotReady"]
       \/ server' = [server EXCEPT !.pc = "Panicked", !.variant = "Done",
                                   !.last = "Err"]
    /\ UNCHANGED serveFrame

NextServe == ClientConnect \/ ClientClose \/ ServeAccept \/ ServePoll

SpecServe == InitServe /\ [][NextServe]_vars

---------------------------------------------------------------------------
(* Twister: a Join of two Transfers over two shared endpoints.  The         *)
(* endpoints are the Half of the tests: its read side is a Trickle over the *)
(* preloaded content, which answers every ready_every-th read with at most  *)
(* one byte and the others with WouldBlock; its write side is a Cursor that *)
(* takes every byte it is given.                                            *)

\* the longest preloaded content, and the largest ready_every
MaxContent == 2
MaxEvery == 2

ContentBytes == {97, 98}

\* Half::new(initial_content, ready_every)
HalfNew(content, every) ==
    [content |-> content, pos |-> 0, call_count |-> 0, ready_every |-> every,
     written |-> <<>>]

\* Trickle::read into a buffer of at least one byte: [res, bytes, half]
TrickleRead(h) ==
    LET counted == [h EXCEPT !.call_count = @ + 1] IN
    IF (counted.call_count - 1) % h.ready_every = 0
    THEN LET n == Min(1, Len(h.content) - h.pos) IN
         [res |-> "Ok", bytes |-> SubSeq(h.content, h.pos + 1, h.pos + n),
          half |-> [counted EXCEPT !.pos = @ + n]]
    ELSE [res |-> "WouldBlock", bytes |-> <<>>, half |-> counted]

\* a write side that puts the new bytes in front of the old ones
HalfWriteFront(h, bytes) ==
    [n |-> Len(bytes), half |-> [h EXCEPT !.written = bytes \o @]]

\* Write for &Half: the Cursor appends all the bytes: [n, half]
HalfWrite(h, bytes) ==
    [n |-> Len(bytes), half |-> [h EXCEPT !.written = @ \o bytes]]

\* Transfer::new(source, destination)
TransferNew ==
    [state |-> "Reading", remaining |-> 0, buffer |-> <<>>, transferred |-> 0]

\* the one element of a set of one element
The(S) == CHOOSE x \in S : TRUE

\* Transfer::poll from state t over source src and destination dst:
\* [res, item, t, src, dst]
RECURSIVE TransferPoll(_, _, _)
TransferPoll(t, src, dst) ==
    IF t.state = "Reading"
    THEN The({
         IF r.res = "WouldBlock"
         THEN [res |-> "NotReady", item |-> None, t |-> t, src |-> r.half,
               dst |-> dst]
         ELSE IF Len(r.bytes) = 0
         THEN [res |-> "Ready", item |-> Some(t.transferred), t |-> t,
               src |-> r.half, dst |-> dst]
         ELSE TransferPoll([t EXCEPT !.state = "Writing",
                                     !.remaining = Len(r.bytes),
                                     !.buffer = r.bytes \o Drop(@, Len(r.bytes))],
                           r.half, dst)
         : r \in {TrickleRead(src)}})
    ELSE The({
         IF w.n = 0
         THEN [res |-> "Ready", item |-> Some(t.transferred), t |-> t,
               src |-> src, dst |-> w.half]
         ELSE IF w.n = t.remaining
         THEN TransferPoll([t EXCEPT !.transferred = @ + t.remaining,
                                     !.state = "Reading"],
                           src, w.half)
         ELSE TransferPoll([t EXCEPT !.transferred = @ + w.n,
                                     !.remaining = @ - w.n],
                           src, w.half)
         : w \in {HalfWrite(dst, Take(t.buffer, t.remaining))}})

\* Join::poll in state Niether, l and r being what the left and then the
\* right Transfer returned
TwistNiether(tw, l, r) ==
    LET both == [tw EXCEPT !.left = l.t, !.right = r.t,
                           !.first = r.dst, !.second = r.src]
    IN  IF l.res = "Ready" /\ r.res = "Ready"
        THEN [both EXCEPT !.state = "Done", !.res = "Ready",
                 !.item = Some(<<l.item[1], r.item[1]>>)]
        ELSE [both EXCEPT
                 !.state = IF l.res = "Ready" THEN "Left"
                           ELSE IF r.res = "Ready" THEN "Right"
                           ELSE "Niether",
                 !.lv = IF l.res = "Ready" THEN l.item ELSE None,
                 !.rv = IF l.res # "Ready" /\ r.res = "Ready"
                        THEN r.item ELSE None,
                 !.res = "NotReady", !.item = None]

\* Join::poll in state Left, r being what the right Transfer returned
TwistLeft(tw, r) ==
    LET one == [tw EXCEPT !.right = r.t, !.first = r.dst, !.second = r.src]
    IN  IF r.res = "Ready"
        THEN [one EXCEPT !.state = "Done", !.lv = None, !.res = "Ready",
                 !.item = Some(<<tw.lv[1], r.item[1]>>)]
        ELSE [one EXCEPT !.res = "NotReady", !.item = None]

\* Join::poll in state Right, l being what the left Transfer returned
TwistRight(tw, l) ==
    LET one == [tw EXCEPT !.left = l.t, !.first = l.src, !.second = l.dst]
    IN  IF l.res = "Ready"
        THEN [one EXCEPT !.state = "Done", !.rv = None, !.res = "Ready",
                 !.item = Some(<<l.item[1], tw.rv[1]>>)]
        ELSE [one EXCEPT !.res = "NotReady", !.item = None]

\* Twister::poll, that is Join::poll over the two Transfers, from state tw:
\* the Twister after the call, with res and item what the call returned.
\* The left Transfer copies first to second, the right one second to first.
TwisterPoll(tw) ==
    CASE tw.state = "Niether" ->
           The({The({TwistNiether(tw, l, r) :
                        r \in {TransferPoll(tw.right, l.dst, l.src)}}) :
                   l \in {TransferPoll(tw.left, tw.first, tw.second)}})
      [] tw.state = "Left" ->
           The({TwistLeft(tw, r) :
                   r \in {TransferPoll(tw.right, tw.second, tw.first)}})
      [] tw.state = "Right" ->
           The({TwistRight(tw, l) :
                   l \in {TransferPoll(tw.left, tw.first, tw.second)}})
      [] OTHER -> [tw EXCEPT !.res = "Panic", !.item = None]

Contents == SeqsUpTo(ContentBytes, MaxContent)

\* Twister::new(Half::new(a, e1), Half::new(b, e2))
InitTwist ==
    /\ StreamWith(<<>>)
    /\ conn = "None" /\ pollable = NoPollable /\ value = None /\ requests = <<>>
    /\ NoAux
    /\ mapErr = NoMapErr /\ polls = <<>> /\ pool = NoPool /\ server = NoServer
    /\ http = NoHttp /\ fuse = NoFuse /\ sendOne = NoSendOne
    /\ \E a, b \in Contents : \E e1, e2 \in 1..MaxEvery :
          twister = [state |-> "Niether", lv |-> None, rv |-> None,
                     left |-> TransferNew, right |-> TransferNew,
                     first |-> HalfNew(a, e1), second |-> HalfNew(b, e2),
                     res |-> "", item |-> None]

\* twister.poll() in the loop of the caller, which ends at Ready
CallTwisterPoll ==
    /\ twister.state \notin {"None", "Done"}
    /\ \E tw \in {TwisterPoll(twister)} :
          /\ twister' = tw
          /\ ret' = [res |-> tw.res, err |-> "", item |-> tw.item]
    /\ call' = Called("Twister", <<>>, "", 0, "")
    /\ UNCHANGED <<inbox, outbox, buffer, input0, drained, encoded, connVars,
                   faulted, auxVars, mapErr, polls, pool, server, http, fuse, sendOne>>

NextTwist == CallTwisterPoll

\* the caller polls until Ready
SpecTwist == InitTwist /\ [][NextTwist]_vars /\ WF_vars(CallTwisterPoll)

---------------------------------------------------------------------------
(* The HTTP parser of http/parser.rs.  The parser works on borrowed slices
   of one input: a slice is [lo, hi), the bytes data[lo+1] .. data[hi]. *)

SP == 32
TAB == 9
COLON == 58

Slice(lo, hi) == [lo |-> lo, hi |-> hi]
Whole(data) == Slice(0, Len(data))
BytesOf(data, s) == SubSeq(data, s.lo + 1, s.hi)
SliceLen(s) == s.hi - s.lo

\* Iterator::position over slice s: how far into s the first byte of B lies
PositionOf(data, s, B) ==
    LET hits == {p \in s.lo .. (s.hi - 1) : data[p + 1] \in B}
    IN  IF hits = {} THEN None
        ELSE Some((CHOOSE p \in hits : \A q \in hits : p <= q) - s.lo)

\* Iterator::position for the first byte that is not in B
PositionNotOf(data, s, B) ==
    LET hits == {p \in s.lo .. (s.hi - 1) : data[p + 1] \notin B}
    IN  IF hits = {} THEN None
        ELSE Some((CHOOSE p \in hits : \A q \in hits : p <= q) - s.lo)

\* slice::split_at(p) mapped over an Option position
SplitAt(s, pos) ==
    IF pos = None THEN None
    ELSE Some([val |-> Slice(s.lo, s.lo + pos[1]), tail |-> Slice(s.lo + pos[1], s.hi)])

\* a test for the empty line that takes a CR alone for one
header_line_is_empty_cr(data, s) ==
    SliceLen(s) > 0 /\ data[s.lo + 1] \in {LF, CR}

header_line_is_empty(data, s) ==
    \/ SliceLen(s) > 0 /\ data[s.lo + 1] = LF
    \/ SliceLen(s) > 1 /\ data[s.lo + 1] = CR /\ data[s.lo + 2] = LF

\* skip_newline that stops after the first CR
skip_newline_at_cr(data, s) ==
    LET cr == PositionOf(data, s, {CR})
        lf == PositionOf(data, s, {LF})
    IN  Slice(s.lo + (IF cr # None THEN cr[1] + 1
                      ELSE IF lf # None THEN lf[1] + 1 ELSE 0), s.hi)

\* to_skip is set from the first CR of the whole slice, then overwritten from
\* its first LF
skip_newline(data, s) ==
    LET cr == PositionOf(data, s, {CR})
        lf == PositionOf(data, s, {LF})
        afterCr == IF cr = None THEN 0 ELSE cr[1] + 1
        to_skip == IF lf = None THEN afterCr ELSE lf[1] + 1
    IN  Slice(s.lo + to_skip, s.hi)

\* the fallback &data[0..0] is the empty slice at the start of the argument
skip_whitespace(data, s) ==
    LET pos == PositionNotOf(data, s, {SP, TAB})
    IN  IF pos = None THEN Slice(s.lo, s.lo) ELSE Slice(s.lo + pos[1], s.hi)

\* skip_header_separator that skips only ':'
skip_colons(data, s) ==
    LET pos == PositionNotOf(data, s, {COLON})
    IN  IF pos = None THEN Slice(s.lo, s.lo) ELSE Slice(s.lo + pos[1], s.hi)

skip_header_separator(data, s) ==
    LET pos == PositionNotOf(data, s, {TAB, SP, COLON})
    IN  IF pos = None THEN Slice(s.lo, s.lo) ELSE Slice(s.lo + pos[1], s.hi)

split_at_first_newline(data, s) == SplitAt(s, PositionOf(data, s, {CR, LF}))

split_at_first_whitespace(data, s) == SplitAt(s, PositionOf(data, s, {SP, TAB}))

split_at_first_header_separator(data, s) == SplitAt(s, PositionOf(data, s, {COLON}))

\* ProtocolParser::new(s).parse(): the states Method, Path and Version in
\* turn; None as soon as a split finds no delimiter
ProtocolParse(data, s) ==
    The({IF m = None THEN None
         ELSE The({IF p = None THEN None
                   ELSE The({IF v = None THEN None
                             ELSE Some([part1 |-> m[1].val, part2 |-> p[1].val,
                                        part3 |-> v[1].val,
                                        tail |-> skip_newline(data, v[1].tail)]) :
                        v \in {split_at_first_newline(data,
                                   skip_whitespace(data, p[1].tail))}}) :
                p \in {split_at_first_whitespace(data,
                           skip_whitespace(data, m[1].tail))}}) :
        m \in {split_at_first_whitespace(data, s)}})

\* HeaderParser::new(s).parse(): the states Name and Value in turn; an empty
\* line yields the header of two empty slices
HeaderParse(data, s) ==
    IF header_line_is_empty(data, s)
    THEN Some([name |-> Slice(s.lo, s.lo), value |-> Slice(s.lo, s.lo),
               tail |-> skip_newline(data, s)])
    ELSE The({IF n = None THEN None
              ELSE The({IF v = None THEN None
                        ELSE Some([name |-> n[1].val, value |-> v[1].val,
                                   tail |-> skip_newline(data, v[1].tail)]) :
                   v \in {split_at_first_newline(data,
                              skip_header_separator(data, n[1].tail))}}) :
         n \in {split_at_first_header_separator(data, s)}})

\* Object::read_headers with room for cap headers, from slice s on, having
\* stored hs: [res, n, headers]
RECURSIVE ReadHeadersFrom(_, _, _, _)
ReadHeadersFrom(data, s, cap, hs) ==
    The({IF h = None THEN [res |-> "None", n |-> 0, headers |-> hs]
         ELSE IF SliceLen(h[1].name) = 0
              THEN [res |-> "Some", n |-> h[1].tail.lo, headers |-> hs]
         ELSE IF Len(hs) >= cap
              THEN [res |-> "Panic", n |-> 0, headers |-> hs]
         ELSE ReadHeadersFrom(data, h[1].tail, cap,
                  Append(hs, [name |-> h[1].name, value |-> h[1].value])) :
        h \in {HeaderParse(data, s)}})

read_headers(data, header_data, cap) == ReadHeadersFrom(data, header_data, cap, <<>>)

\* Object::parse: [res, n, part1, part2, part3, headers]
ObjectParse(data, cap) ==
    The({IF p = None
         THEN [res |-> "None", n |-> 0, part1 |-> Slice(0, 0),
               part2 |-> Slice(0, 0), part3 |-> Slice(0, 0), headers |-> <<>>]
         ELSE The({[res |-> r.res, n |-> r.n, part1 |-> p[1].part1,
                    part2 |-> p[1].part2, part3 |-> p[1].part3,
                    headers |-> r.headers] :
                r \in {read_headers(data, p[1].tail, cap)}}) :
        p \in {ProtocolParse(data, Whole(data))}})

---------------------------------------------------------------------------
(* The inputs of the HTTP parser: a start line, header lines, the line that
   ends the headers and what follows, each kept apart in http.parts so that
   what the parser returns can be compared with what the input was made of. *)

\* the longest run of whitespace between two parts of the start line
MaxWs == 2
\* the longest run of separators after the ':' of a header line
MaxSep == 1
\* the longest byte string after the parsed line
MaxRest == 2
\* the most header lines of a request or response
MaxHeaderLines == 2

RECURSIVE Flatten(_)
Flatten(ss) == IF ss = <<>> THEN <<>> ELSE Head(ss) \o Flatten(Tail(ss))

StartBytes(st) == st.method \o st.ws1 \o st.path \o st.ws2 \o st.version \o st.term

LineBytes(ln) == ln.name \o <<COLON>> \o ln.sep \o ln.value \o ln.term

LinesBytes(lns) == Flatten([i \in 1..Len(lns) |-> LineBytes(lns[i])])

InputOf(parts) ==
    StartBytes(parts.start) \o LinesBytes(parts.lines) \o parts.end \o parts.rest

NoStart == [method |-> <<>>, ws1 |-> <<>>, path |-> <<>>, ws2 |-> <<>>,
            version |-> <<>>, term |-> <<>>]

\* a line ends with LF, with CR LF, or (malformed) with a lone CR
Terms == {<<LF>>, <<CR, LF>>, <<CR>>}

WsRuns == SeqsUpTo({SP, TAB}, MaxWs) \ {<<>>}

Rests == SeqsUpTo({97, SP, CR, LF}, MaxRest)

StartLines ==
    {[method |-> <<97>>, ws1 |-> w1, path |-> <<97>>, ws2 |-> w2,
      version |-> v, term |-> t] :
        w1 \in WsRuns, w2 \in WsRuns, v \in {<<>>, <<97>>, <<97, SP, 97>>},
        t \in Terms}

PlainStartLines ==
    {[method |-> <<97>>, ws1 |-> <<SP>>, path |-> <<97>>, ws2 |-> <<SP>>,
      version |-> <<49>>, term |-> t] : t \in Terms}

HeaderLines ==
    {[name |-> n, sep |-> s, value |-> v, term |-> t] :
        n \in {<<>>, <<97>>}, s \in SeqsUpTo({COLON, SP, TAB}, MaxSep),
        v \in {<<>>, <<97>>, <<97, COLON, 97>>}, t \in Terms}

PlainHeaderLines ==
    {[name |-> n, sep |-> <<SP>>, value |-> <<97>>, term |-> t] :
        n \in {<<>>, <<97>>}, t \in Terms}

\* the empty line that ends the headers, or (incomplete input) nothing
Ends == {<<>>, <<LF>>, <<CR, LF>>}

\* the header array handed to Request::new or Response::new has room for one
\* header, or for as many as parse_request gives it
HeaderSlots == 32
Caps == {1, HeaderSlots}

ProtocolInputs ==
    {[start |-> st, lines |-> <<>>, end |-> <<>>, rest |-> r] :
        st \in StartLines, r \in Rests}

HeaderInputs ==
    {[start |-> NoStart, lines |-> <<l1, l2>>, end |-> <<>>, rest |-> r] :
        l1 \in HeaderLines, l2 \in PlainHeaderLines, r \in {<<>>, <<97>>, <<LF>>}}

ObjectInputsWith(starts) ==
    {[start |-> st, lines |-> lns, end |-> e, rest |-> r] :
        st \in starts, lns \in SeqsUpTo(PlainHeaderLines, MaxHeaderLines),
        e \in Ends, r \in {<<>>, <<97>>}}

ObjectInputs == ObjectInputsWith(PlainStartLines)

\* no parser has run yet on the input made of parts
HttpWith(op, parts, cap) ==
    [op |-> op, parts |-> parts, data |-> InputOf(parts), cap |-> cap,
     at |-> Slice(Len(StartBytes(parts.start)), Len(InputOf(parts))),
     out |-> <<>>]

\* everything but the parser is absent from these runs
NoOthers ==
    /\ StreamWith(<<>>)
    /\ conn = "None" /\ pollable = NoPollable /\ value = None /\ requests = <<>>
    /\ NoAux
    /\ mapErr = NoMapErr /\ polls = <<>> /\ pool = NoPool /\ server = NoServer
    /\ twister = NoTwister /\ sendOne = NoSendOne

InitParse ==
    /\ NoOthers /\ fuse = NoFuse
    /\ \/ \E p \in ProtocolInputs : http = HttpWith("protocol", p, 0)
       \/ \E p \in HeaderInputs : http = HttpWith("header", p, 0)
       \/ \E p \in ObjectInputs : \E cap \in Caps :
             \E op \in {"request", "response"} : http = HttpWith(op, p, cap)

httpFrame == <<inbox, outbox, buffer, ret, call, input0, drained, encoded,
               connVars, faulted, auxVars, mapErr, polls, pool, server, twister,
               fuse, sendOne>>

\* ProtocolParser::new(data).parse()
CallProtocolParse ==
    /\ http.op = "protocol" /\ http.out = <<>>
    /\ http' = [http EXCEPT !.out = <<ProtocolParse(http.data, Whole(http.data))>>]
    /\ UNCHANGED httpFrame

\* HeaderParser::new(tail).parse(), tail being what the last parser left
CallHeaderParse ==
    /\ http.op = "header"
    /\ IF http.out = <<>> THEN TRUE ELSE http.out[Len(http.out)] # None
    /\ LET h == HeaderParse(http.data, http.at)
       IN  http' = [http EXCEPT !.out = Append(@, h),
                                !.at = IF h = None THEN @ ELSE h[1].tail]
    /\ UNCHANGED httpFrame

\* Request::new(&mut headers).parse(data): method, path and version are the
\* three parts of the start line
CallRequestParse ==
    /\ http.op = "request" /\ http.out = <<>>
    /\ LET r == ObjectParse(http.data, http.cap)
       IN  http' = [http EXCEPT !.out =
                <<[res |-> r.res, n |-> r.n, headers |-> r.headers,
                   method |-> r.part1, path |-> r.part2, version |-> r.part3]>>]
    /\ UNCHANGED httpFrame

\* Response::new(&mut headers).parse(data): version, status code and status
\* text are the three parts of the start line
CallResponseParse ==
    /\ http.op = "response" /\ http.out = <<>>
    /\ LET r == ObjectParse(http.data, http.cap)
       IN  http' = [http EXCEPT !.out =
                <<[res |-> r.res, n |-> r.n, headers |-> r.headers,
                   version |-> r.part1, status_code |-> r.part2,
                   status_text |-> r.part3]>>]
    /\ UNCHANGED httpFrame

NextParse ==
    \/ CallProtocolParse
    \/ CallHeaderParse
    \/ CallRequestParse
    \/ CallResponseParse

SpecParse == InitParse /\ [][NextParse]_vars

---------------------------------------------------------------------------
(* The HTTP types of http/types.rs: HttpMethod from bytes, the request and
   response objects with their header list, and the decoders parse_request
   and parse_response. *)

\* the most add_header calls on one object
MaxAdd == 2

to_lower(v) == IF v \in 65..90 THEN v + (97 - 65) ELSE v

Lowered(bytes) == [i \in 1..Len(bytes) |-> to_lower(bytes[i])]

\* first index of in_set that equals to_find once both are lower-cased
which_of(to_find, in_set) ==
    LET hits == {i \in 1..Len(in_set) : Lowered(in_set[i]) = Lowered(to_find)}
    IN  IF hits = {} THEN None
        ELSE Some((CHOOSE i \in hits : \A j \in hits : i <= j) - 1)

\* b"connect", b"Get", b"Post", b"Put", b"Delete", b"Patch", b"Head",
\* b"options"
valid ==
    << <<99, 111, 110, 110, 101, 99, 116>>, <<71, 101, 116>>,
       <<80, 111, 115, 116>>, <<80, 117, 116>>,
       <<68, 101, 108, 101, 116, 101>>, <<80, 97, 116, 99, 104>>,
       <<72, 101, 97, 100>>, <<111, 112, 116, 105, 111, 110, 115>> >>

HttpMethods ==
    <<"Connect", "Get", "Post", "Put", "Delete", "Patch", "Head", "Options">>

\* HttpMethod::from(bytes): a method, or the panic of an unknown method
HttpMethodFrom(bytes) ==
    LET n == which_of(bytes, valid)
    IN  IF n = None THEN "Panic" ELSE HttpMethods[n[1] + 1]

\* str::from_utf8 succeeds: it does on bytes that are all below 128, and the
\* inputs of the model hold no other byte
IsUtf8(bytes) == \A i \in 1..Len(bytes) : bytes[i] < 128

RECURSIVE DecimalOf(_)
DecimalOf(digits) ==
    IF digits = <<>> THEN 0
    ELSE 10 * DecimalOf(SubSeq(digits, 1, Len(digits) - 1))
            + (digits[Len(digits)] - 48)

\* str::parse::<usize>: decimal digits after an optional '+', as an Option;
\* the inputs are too short to exceed usize
ParseUsize(bytes) ==
    LET digits == IF bytes # <<>> /\ bytes[1] = 43 THEN Tail(bytes) ELSE bytes
    IN  IF digits # <<>> /\ \A i \in 1..Len(digits) : digits[i] \in 48..57
        THEN Some(DecimalOf(digits))
        ELSE None

NoObject == [kind |-> "None"]

\* RequestBuilder::new(method, path).build()
RequestBuild(method, path) ==
    [kind |-> "Request", method |-> method, path |-> path, headers |-> <<>>]

\* ResponseBuilder::new(status_code, status_text).build()
ResponseBuild(status_code, status_text) ==
    [kind |-> "Response", status_code |-> status_code,
     status_text |-> status_text, headers |-> <<>>]

\* add_header that puts the new header first
add_header_first(obj, name, val) ==
    [obj EXCEPT !.headers = <<<<name, val>>>> \o @]

\* Object::add_header: push onto the header Vec
add_header(obj, name, val) ==
    [obj EXCEPT !.headers = Append(@, <<name, val>>)]

\* add_header for each of the headers hs, in their order
RECURSIVE AddHeaders(_, _)
AddHeaders(obj, hs) ==
    IF hs = <<>> THEN obj
    ELSE AddHeaders(add_header(obj, hs[1][1], hs[1][2]), Tail(hs))

\* the parsed headers hs of buffer buf as pairs of byte strings
DetachedHeaders(buf, hs) ==
    [i \in 1..Len(hs) |-> <<BytesOf(buf, hs[i].name), BytesOf(buf, hs[i].value)>>]

AllUtf8(pairs) == \A i \in 1..Len(pairs) : IsUtf8(pairs[i][1]) /\ IsUtf8(pairs[i][2])

\* parse_request(&mut buf): [res, obj, buffer]
parse_request(buf) ==
    The({IF r.res = "None"
         THEN [res |-> "None", obj |-> NoObject, buffer |-> buf]
         ELSE The({IF \/ r.res = "Panic" \/ method = "Panic"
                      \/ ~IsUtf8(path) \/ ~AllUtf8(hs)
                   THEN [res |-> "Panic", obj |-> NoObject, buffer |-> buf]
                   ELSE [res |-> "Some",
                         obj |-> AddHeaders(RequestBuild(method, path), hs),
                         buffer |-> Drop(buf, r.n)] :
                method \in {HttpMethodFrom(BytesOf(buf, r.part1))},
                path \in {BytesOf(buf, r.part2)},
                hs \in {DetachedHeaders(buf, r.headers)}}) :
        r \in {ObjectParse(buf, HeaderSlots)}})

\* parse_response(&mut buf): [res, obj, buffer]
parse_response(buf) ==
    The({IF r.res = "None"
         THEN [res |-> "None", obj |-> NoObject, buffer |-> buf]
         ELSE The({IF \/ r.res = "Panic" \/ ~IsUtf8(code) \/ status = None
                      \/ ~IsUtf8(text) \/ ~AllUtf8(hs)
                   THEN [res |-> "Panic", obj |-> NoObject, buffer |-> buf]
                   ELSE [res |-> "Some",
                         obj |-> AddHeaders(ResponseBuild(status[1], text), hs),
                         buffer |-> Drop(buf, r.n)] :
                code \in {BytesOf(buf, r.part2)},
                status \in {ParseUsize(BytesOf(buf, r.part2))},
                text \in {BytesOf(buf, r.part3)},
                hs \in {DetachedHeaders(buf, r.headers)}}) :
        r \in {ObjectParse(buf, HeaderSlots)}})

\* method names in lower case, upper case and capitalised, and byte strings
\* that name no method
Uppered(bytes) ==
    [i \in 1..Len(bytes) |-> IF bytes[i] \in 97..122 THEN bytes[i] - 32 ELSE bytes[i]]

Capitalised(bytes) == Uppered(Take(bytes, 1)) \o Drop(Lowered(bytes), 1)

MethodInputs ==
    UNION {{Lowered(valid[i]), Uppered(valid[i]), Capitalised(valid[i])} :
              i \in 1..Len(valid)}
        \cup {<<>>, <<97>>, <<103, 101>>, <<103, 101, 116, 115>>,
              <<116, 114, 97, 99, 101>>, <<71, 69, 84, 32>>, <<39, 37, 52>>}

RequestStartLines ==
    {[method |-> m, ws1 |-> <<SP>>, path |-> <<97>>, ws2 |-> <<SP>>,
      version |-> <<49>>, term |-> t] :
        m \in {<<71, 69, 84>>, <<103, 101, 116>>, <<97>>}, t \in Terms}

ResponseStartLines ==
    {[method |-> <<97>>, ws1 |-> <<SP>>, path |-> c, ws2 |-> <<SP>>,
      version |-> <<97>>, term |-> t] :
        c \in {<<49>>, <<52, 48>>, <<97>>}, t \in Terms}

NoParts == [start |-> NoStart, lines |-> <<>>, end |-> <<>>, rest |-> <<>>]

\* one run over the types: what is called, the bytes it is called on, the
\* buffer, the object built, what the calls returned and the headers added
TypesWith(op, parts, data, obj) ==
    [op |-> op, parts |-> parts, data |-> data, buffer |-> data, obj |-> obj,
     out |-> <<>>, added |-> <<>>]

InitTypes ==
    /\ NoOthers /\ fuse = NoFuse
    /\ \/ \E m \in MethodInputs : http = TypesWith("method", NoParts, m, NoObject)
       \/ \E p \in ObjectInputsWith(RequestStartLines) :
             http = TypesWith("parse_request", p, InputOf(p), NoObject)
       \/ \E p \in ObjectInputsWith(ResponseStartLines) :
             http = TypesWith("parse_response", p, InputOf(p), NoObject)
       \/ http = TypesWith("build", NoParts, <<>>, RequestBuild("Get", <<47>>))
       \/ http = TypesWith("build", NoParts, <<>>, ResponseBuild(200, <<79, 107>>))

\* HttpMethod::from(bytes)
CallMethodFrom ==
    /\ http.op = "method" /\ http.out = <<>>
    /\ http' = [http EXCEPT !.out = <<HttpMethodFrom(http.data)>>]
    /\ UNCHANGED httpFrame

CallParseRequest ==
    /\ http.op = "parse_request" /\ http.out = <<>>
    /\ LET r == parse_request(http.buffer)
       IN  http' = [http EXCEPT !.out = <<r.res>>, !.obj = r.obj,
                                !.buffer = r.buffer]
    /\ UNCHANGED httpFrame

CallParseResponse ==
    /\ http.op = "parse_response" /\ http.out = <<>>
    /\ LET r == parse_response(http.buffer)
       IN  http' = [http EXCEPT !.out = <<r.res>>, !.obj = r.obj,
                                !.buffer = r.buffer]
    /\ UNCHANGED httpFrame

\* Request::add_header or Response::add_header on the object of the run
CallAddHeader ==
    /\ http.obj # NoObject
    /\ Len(http.added) < MaxAdd
    /\ \E name \in {<<97>>, <<98>>} : \E val \in {<<49>>} :
          http' = [http EXCEPT !.obj = add_header(@, name, val),
                               !.added = Append(@, <<name, val>>)]
    /\ UNCHANGED httpFrame

NextTypes ==
    \/ CallMethodFrom
    \/ CallParseRequest
    \/ CallParseResponse
    \/ CallAddHeader

SpecTypes == InitTypes /\ [][NextTypes]_vars

---------------------------------------------------------------------------
(* FuseResult of pollable.rs: Polling(p), Finished(result) or Empty, over an
   inner Pollable p, polled and taken by a caller that records every call. *)

\* fuse_result(): FuseResult::Polling(p)
FuseNew(p) == [state |-> "Polling", p |-> p, r |-> None]

\* a FuseResult that polls p again although it holds its result
FusePollThrough(f) ==
    IF f.state = "Empty" THEN [res |-> "Panic", f |-> f, inner |-> ""]
    ELSE The({IF f.state = "Finished"
              THEN [res |-> IF f.r[1][1] = "Ok" THEN "Ready" ELSE "Err",
                    f |-> [f EXCEPT !.p = l.m], inner |-> l.res]
              ELSE IF l.res \in {"NotReady", "Panic"}
              THEN [res |-> l.res, f |-> [f EXCEPT !.p = l.m], inner |-> l.res]
              ELSE [res |-> l.res,
                    f |-> [state |-> "Finished", p |-> l.m,
                           r |-> IF l.res = "Ready" THEN Some(<<"Ok", l.m.val>>)
                                 ELSE Some(<<"Err", 0>>)],
                    inner |-> l.res] :
             l \in {MockPoll(f.p)}})

\* FuseResult::poll from state f: [res, f, inner], inner being what p.poll()
\* returned in this call, "" if p was not polled
FuseResultPoll(f) ==
    CASE f.state = "Polling" ->
           The({IF l.res = "NotReady"
                THEN [res |-> "NotReady", f |-> [f EXCEPT !.p = l.m],
                      inner |-> l.res]
                ELSE IF l.res = "Panic"
                THEN [res |-> "Panic", f |-> [f EXCEPT !.p = l.m], inner |-> l.res]
                ELSE [res |-> l.res,
                      f |-> [state |-> "Finished", p |-> l.m,
                             r |-> IF l.res = "Ready" THEN Some(<<"Ok", l.m.val>>)
                                   ELSE Some(<<"Err", 0>>)],
                      inner |-> l.res] :
               l \in {MockPoll(f.p)}})
      [] f.state = "Finished" ->
           [res |-> IF f.r[1][1] = "Ok" THEN "Ready" ELSE "Err", f |-> f,
            inner |-> ""]
      [] OTHER ->
           [res |-> "Panic", f |-> f, inner |-> ""]

\* FuseResult::take from state f: [res, item, f]; mem::replace leaves Empty
\* behind whatever the state was
FuseTake(f) ==
    IF f.state = "Finished"
    THEN [res |-> f.r[1][1],
          item |-> IF f.r[1][1] = "Ok" THEN Some(f.r[1][2]) ELSE None,
          f |-> [f EXCEPT !.state = "Empty", !.r = None]]
    ELSE [res |-> "Panic", item |-> None, f |-> [f EXCEPT !.state = "Empty"]]

InitFuse ==
    /\ NoOthers /\ http = NoHttp
    /\ \E p \in Mocks : fuse = FuseNew(p)

fuseFrame == <<inbox, outbox, buffer, input0, drained, encoded, connVars,
               faulted, auxVars, mapErr, pool, server, twister, http, sendOne>>

\* fuse.poll(), recorded
CallFusePoll ==
    /\ fuse.state # "None"
    /\ ~Halted
    /\ Len(polls) < MaxPolls
    /\ \E o \in {FuseResultPoll(fuse)} :
          /\ fuse' = o.f
          /\ ret' = [res |-> o.res, err |-> "", item |-> None]
          /\ call' = Called("FuseResult::poll", <<>>, "", 0, o.inner)
          /\ polls' = Append(polls, [op |-> "poll", res |-> o.res,
                                     item |-> None, a |-> o.inner])
    /\ UNCHANGED fuseFrame

\* fuse.take(), recorded
CallFuseTake ==
    /\ fuse.state # "None"
    /\ ~Halted
    /\ Len(polls) < MaxPolls
    /\ \E o \in {FuseTake(fuse)} :
          /\ fuse' = o.f
          /\ ret' = [res |-> o.res, err |-> "", item |-> o.item]
          /\ call' = Called("FuseResult::take", <<>>, "", 0, "")
          /\ polls' = Append(polls, [op |-> "take", res |-> o.res,
                                     item |-> o.item, a |-> ""])
    /\ UNCHANGED fuseFrame

NextFuse == CallFusePoll \/ CallFuseTake

SpecFuse == InitFuse /\ [][NextFuse]_vars


---------------------------------------------------------------------------
(* One SendOne::poll call over a Framed sink, statement by statement, on a  *)
(* Framed whose buffer may still hold bytes read earlier, over any Write.   *)

MaxLeft == 2

InitSendSteps ==
    /\ inbox = <<>> /\ input0 = <<>> /\ outbox = <<>>
    /\ ret = NoRet /\ call = NoCall /\ drained = <<>> /\ encoded = <<>>
    /\ faulted = FALSE
    /\ conn = "None" /\ pollable = NoPollable /\ requests = <<>>
    /\ NoAux
    /\ mapErr = NoMapErr /\ polls = <<>> /\ pool = NoPool /\ server = NoServer
    /\ twister = NoTwister /\ http = NoHttp /\ fuse = NoFuse
    /\ \E left \in SeqsUpTo(Bytes, MaxLeft) : buffer = left
    /\ \E item \in SeqsUpTo(Letters, MaxItem) : value = Some(item)
    /\ sendOne = [pc |-> "idle", taken |-> None]

sendFrame == <<inbox, input0, drained, conn, pollable, requests, faulted,
               auxVars, mapErr, polls, pool, server, twister, http, fuse>>

\* the caller polls again after NotReady
SendCall ==
    /\ sendOne.pc = "idle"
    /\ ret.res \in {"None", "NotReady"}
    /\ sendOne' = [sendOne EXCEPT !.pc = "take"]
    /\ call' = Called("SendOne", value, "", 0, "")
    /\ UNCHANGED <<sendFrame, outbox, buffer, encoded, value, ret>>

\* match self.value.take()
SendTake ==
    /\ sendOne.pc = "take"
    /\ sendOne' = [pc |-> IF value = None THEN "last" ELSE "start_send",
                   taken |-> value]
    /\ value' = None
    /\ UNCHANGED <<sendFrame, outbox, buffer, encoded, ret, call>>

\* if let SinkResult::NotReady(value) = self.inner.start_send(value)?
\*     { self.value = Some(value); ...
SendStartSend ==
    /\ sendOne.pc = "start_send"
    /\ \E ss \in {StartSend("line", buffer, sendOne.taken[1])} :
          /\ buffer' = ss.buffer
          /\ encoded' = encoded \o ss.enc
          /\ value' = ss.item
          /\ sendOne' = [pc |-> IF ss.res = "NotReady" THEN "poll_complete"
                                                       ELSE "take",
                         taken |-> None]
    /\ UNCHANGED <<sendFrame, outbox, ret, call>>

\* if let PollResult::NotReady = self.inner.poll_complete()?
\*     { return Ok(PollResult::NotReady); }
SendPollComplete ==
    /\ sendOne.pc = "poll_complete"
    /\ \E pc \in PollComplete("any", buffer, outbox) :
          /\ buffer' = pc.buffer
          /\ outbox' = pc.outbox
          /\ call' = [call EXCEPT !.io = pc.io, !.n = pc.n, !.inner = pc.res]
          /\ IF pc.res = "Ready"
             THEN /\ sendOne' = [sendOne EXCEPT !.pc = "take"]
                  /\ ret' = ret
             ELSE /\ sendOne' = [sendOne EXCEPT !.pc = "idle"]
                  /\ ret' = Returned(pc.res, pc.err)
    /\ UNCHANGED <<sendFrame, encoded, value>>

\* None => return self.inner.poll_complete()
SendLastComplete ==
    /\ sendOne.pc = "last"
    /\ \E pc \in PollComplete("any", buffer, outbox) :
          /\ buffer' = pc.buffer
          /\ outbox' = pc.outbox
          /\ call' = [call EXCEPT !.io = pc.io, !.n = pc.n, !.inner = pc.res]
          /\ sendOne' = [sendOne EXCEPT !.pc = "idle"]
          /\ ret' = Returned(pc.res, pc.err)
    /\ UNCHANGED <<sendFrame, encoded, value>>

NextSendSteps ==
    \/ SendCall
    \/ SendTake
    \/ SendStartSend
    \/ SendPollComplete
    \/ SendLastComplete

\* the thread that is inside poll() keeps running
SpecSendSteps ==
    InitSendSteps /\ [][NextSendSteps]_vars /\ WF_vars(NextSendSteps)


---------------------------------------------------------------------------
(* HttpCodec of examples/simple_http under Framed::poll: the bytes of one  *)
(* well-formed request arrive in pieces, each piece is appended to the      *)
(* buffer and decode, which is parse_request, runs on the buffer, until it  *)
(* returns a request.                                                       *)

\* GET
GetBytes == <<71, 69, 84>>

\* request line, header lines with a name, the empty line, then the start
\* of a body; every line ends with LF or CR LF
WellFormedRequests ==
    {[start |-> [method |-> GetBytes, ws1 |-> <<SP>>, path |-> <<97>>,
                 ws2 |-> <<SP>>, version |-> <<49>>, term |-> t],
      lines |-> lns, end |-> e, rest |-> r] :
        t \in {<<LF>>, <<CR, LF>>},
        lns \in SeqsUpTo({[name |-> <<97>>, sep |-> <<SP>>, value |-> v,
                           term |-> lt] :
                              v \in {<<97>>, <<97, COLON, 97>>},
                              lt \in {<<LF>>, <<CR, LF>>}},
                         MaxHeaderLines),
        e \in {<<LF>>, <<CR, LF>>}, r \in {<<>>, <<97>>}}

InitFeed ==
    /\ NoOthers /\ fuse = NoFuse
    /\ \E p \in WellFormedRequests :
          http = [op |-> "feed", parts |-> p, data |-> InputOf(p),
                  buffer |-> <<>>, arrived |-> 0, obj |-> NoObject,
                  out |-> <<>>]

\* the next k bytes arrive: buf.extend(..); parse_request(&mut buf)
FeedAndParse ==
    /\ http.op = "feed"
    /\ IF http.out = <<>> THEN TRUE ELSE http.out = <<"None">>
    /\ \E k \in 1..(Len(http.data) - http.arrived) :
          \E r \in {parse_request(http.buffer
                        \o SubSeq(http.data, http.arrived + 1, http.arrived + k))} :
             http' = [http EXCEPT !.arrived = @ + k, !.buffer = r.buffer,
                                  !.obj = r.obj, !.out = <<r.res>>]
    /\ UNCHANGED httpFrame

NextFeed == FeedAndParse

SpecFeed == InitFeed /\ [][NextFeed]_vars


---------------------------------------------------------------------------
(* One Transfer over any Read and any Write: a read returns any positive    *)
(* count up to what the source still has, 0 at its end, would block or      *)
(* fails; a write takes any count up to what it is given, would block or    *)
(* fails.                                                                   *)

\* const BUFFER_SIZE: usize = 1024*8
BUFFER_SIZE == 8192

\* (&*self.source).read(&mut self.buffer) with the source at s: [io, n]
SourceReads(s) ==
    {[io |-> "WouldBlock", n |-> 0], [io |-> "IoErr", n |-> 0]}
        \cup {[io |-> "Ok", n |-> k] :
                 k \in 1..Min(BUFFER_SIZE, Len(s.content) - s.pos)}
        \cup (IF s.pos = Len(s.content) THEN {[io |-> "Ok", n |-> 0]} ELSE {})

\* (&*self.destination).write(bytes): [io, n]
DestinationWrites(bytes) ==
    {[io |-> "WouldBlock", n |-> 0], [io |-> "IoErr", n |-> 0]}
        \cup {[io |-> "Ok", n |-> k] : k \in 0..Len(bytes)}

\* Transfer::poll from state t over the source s, written being what the
\* destination has taken so far: every outcome the endpoints allow, each
\* [res, item, t, src, written]
RECURSIVE TransferPollAny(_, _, _)
TransferPollAny(t, s, written) ==
    IF t.state = "Reading"
    THEN UNION {
         IF r.io # "Ok"
         THEN {[res |-> TryPollIo(r.io).res, item |-> None, t |-> t,
                src |-> s, written |-> written]}
         ELSE IF r.n = 0
         THEN {[res |-> "Ready", item |-> Some(t.transferred), t |-> t,
                src |-> s, written |-> written]}
         ELSE TransferPollAny(
                  [t EXCEPT !.state = "Writing", !.remaining = r.n,
                            !.buffer = SubSeq(s.content, s.pos + 1, s.pos + r.n)
                                           \o Drop(@, r.n)],
                  [s EXCEPT !.pos = @ + r.n], written)
         : r \in SourceReads(s)}
    ELSE UNION {
         IF w.io # "Ok"
         THEN {[res |-> TryPollIo(w.io).res, item |-> None, t |-> t,
                src |-> s, written |-> written]}
         ELSE IF w.n = 0
         THEN {[res |-> "Ready", item |-> Some(t.transferred), t |-> t,
                src |-> s, written |-> written]}
         ELSE IF w.n = t.remaining
         THEN TransferPollAny([t EXCEPT !.transferred = @ + t.remaining,
                                        !.state = "Reading"],
                              s, written \o Take(t.buffer, w.n))
         ELSE TransferPollAny([t EXCEPT !.transferred = @ + w.n,
                                        !.remaining = @ - w.n],
                              s, written \o Take(t.buffer, w.n))
         : w \in DestinationWrites(Take(t.buffer, t.remaining))}

\* Transfer::new(source, destination) over a source that holds content
InitTransfer ==
    /\ StreamWith(<<>>)
    /\ conn = "None" /\ pollable = NoPollable /\ value = None /\ requests = <<>>
    /\ NoAux
    /\ mapErr = NoMapErr /\ polls = <<>> /\ pool = NoPool /\ server = NoServer
    /\ http = NoHttp /\ fuse = NoFuse /\ sendOne = NoSendOne
    /\ \E c \in Contents :
          twister = [state |-> "Transfer", t |-> TransferNew,
                     src |-> [content |-> c, pos |-> 0], written |-> <<>>,
                     res |-> "", item |-> None]

\* transfer.poll() by a caller that polls until Ready or Err
CallTransferPoll ==
    /\ twister.state = "Transfer"
    /\ twister.res \in {"", "NotReady"}
    /\ \E o \in TransferPollAny(twister.t, twister.src, twister.written) :
          /\ twister' = [twister EXCEPT !.t = o.t, !.src = o.src,
                                        !.written = o.written,
                                        !.res = o.res, !.item = o.item]
          /\ ret' = [res |-> o.res, err |-> "", item |-> o.item]
    /\ call' = Called("Transfer", <<>>, "", 0, "")
    /\ UNCHANGED <<inbox, outbox, buffer, input0, drained, encoded, connVars,
                   faulted, auxVars, mapErr, polls, pool, server, http, fuse,
                   sendOne>>

NextTransfer == CallTransferPoll

SpecTransfer == InitTransfer /\ [][NextTransfer]_vars


---------------------------------------------------------------------------
(* The ThreadPool serving HTTP: each queued stream carries the bytes of one *)
(* request, and the connection a worker binds to it is a Connection over    *)
(* Framed<stream, HttpCodec>, whose decode is parse_request.  A panic in a  *)
(* poll unwinds through pump_connections and connection_proc: the worker   *)
(* thread ends and drops its connections and its Receiver.                  *)

PlainLine == [name |-> <<97>>, sep |-> <<>>, value |-> <<97>>, term |-> <<LF>>]

RequestOf(method, nlines) ==
    InputOf([start |-> [method |-> method, ws1 |-> <<SP>>, path |-> <<97>>,
                        ws2 |-> <<SP>>, version |-> <<49>>, term |-> <<LF>>],
             lines |-> [i \in 1..nlines |-> PlainLine],
             end |-> <<LF>>, rest |-> <<>>])

\* a request, a request whose method is not one of HttpMethod's, and a
\* request with one header line more than parse_request has room for
GoodRequest == RequestOf(GetBytes, 1)
UnknownMethodRequest == RequestOf(<<97>>, 1)
LongRequest == RequestOf(GetBytes, HeaderSlots + 1)

HttpInputs == {GoodRequest, UnknownMethodRequest, LongRequest}

\* what connection.poll() can return or do on a stream whose peer sends
\* input: NotReady until the bytes are there and after a request was
\* decoded, Err on an I/O error, or the panic of parse_request
ConnectionPolls(input) ==
    IF parse_request(input).res = "Panic"
    THEN {"NotReady", "Err", "Panic"}
    ELSE {"NotReady", "Err"}

HttpWorker == [connections |-> <<>>, alive |-> TRUE, bound |-> {},
               failed |-> {}, log |-> <<>>]

\* ThreadPool::new(n, Arc::new(HttpProto), handler)
InitHttpPool ==
    /\ StreamWith(<<>>)
    /\ conn = "None" /\ pollable = NoPollable /\ value = None /\ requests = <<>>
    /\ NoAux
    /\ mapErr = NoMapErr /\ polls = <<>> /\ server = NoServer
    /\ twister = NoTwister /\ http = NoHttp /\ fuse = NoFuse
    /\ sendOne = NoSendOne
    /\ \E n \in 1..MaxWorkers :
          pool = [state |-> "HttpPool", n |-> n, last_thread |-> 0,
                  queued |-> 0, inputs |-> <<>>, panicked |-> FALSE,
                  chans |-> [w \in 0..(n - 1) |-> <<>>],
                  workers |-> [w \in 0..(n - 1) |-> HttpWorker]]

httpPoolFrame == <<inbox, outbox, buffer, ret, call, input0, drained, encoded,
                   connVars, faulted, auxVars, mapErr, polls, server, twister,
                   http, fuse, sendOne>>

\* pool.queue(stream): send fails once the worker's Receiver is dropped,
\* and expect("The connection thread has died!") panics in the caller
QueueHttp ==
    /\ pool.state = "HttpPool"
    /\ ~pool.panicked
    /\ pool.queued < MaxStreams
    /\ \E input \in HttpInputs :
          LET w == pool.last_thread
              s == pool.queued
          IN  IF pool.workers[w].alive
              THEN pool' = [pool EXCEPT !.chans[w] = Append(@, s),
                                        !.inputs = Append(@, input),
                                        !.last_thread = NextThread(w, pool.n),
                                        !.queued = @ + 1]
              ELSE pool' = [pool EXCEPT !.inputs = Append(@, input),
                                        !.queued = @ + 1,
                                        !.panicked = TRUE]
    /\ UNCHANGED httpPoolFrame

\* the polls of one pump pass up to and with the first one that panics
UpToPanic(outs) ==
    LET panics == {i \in 1..Len(outs) : outs[i] = "Panic"}
    IN  IF panics = {} THEN Len(outs)
        ELSE CHOOSE i \in panics : \A j \in panics : i <= j

\* one iteration of the loop of connection_proc in worker w
ConnectionProcHttp(w) ==
    /\ pool.state = "HttpPool"
    /\ pool.workers[w].alive
    /\ LET wk == pool.workers[w]
           ch == pool.chans[w]
           blocking == Len(wk.connections) = 0
       IN
        /\ blocking => ch # <<>>
        /\ LET msg == IF ch # <<>> THEN Some(Head(ch)) ELSE None
               conns == IF msg # None
                        THEN Append(wk.connections, Some([id |-> msg[1]]))
                        ELSE wk.connections
           IN  \E outs \in [1..Len(conns) -> {"NotReady", "Err", "Panic"}] :
                 /\ \A i \in 1..Len(conns) :
                       outs[i] \in ConnectionPolls(pool.inputs[conns[i][1].id + 1])
                 /\ LET p == PumpConnections(conns, outs)
                        last == UpToPanic(outs)
                        died == \E i \in 1..Len(outs) : outs[i] = "Panic"
                    IN
                    pool' = [pool EXCEPT
                       !.chans[w] = IF died THEN <<>>
                                    ELSE IF ch # <<>> THEN Tail(ch) ELSE ch,
                       !.workers[w] =
                           [connections |-> IF died THEN <<>> ELSE p.connections,
                            alive |-> ~died,
                            bound |-> wk.bound \cup
                                        {conns[i][1].id : i \in 1..Len(conns)},
                            failed |-> wk.failed \cup
                                        {conns[i][1].id :
                                            i \in {j \in 1..last :
                                                     outs[j] # "NotReady"}},
                            log |-> SubSeq(p.log, 1, last)]]
    /\ UNCHANGED httpPoolFrame

NextHttpPool ==
    \/ QueueHttp
    \/ \E w \in 0..(MaxWorkers - 1) : w < pool.n /\ ConnectionProcHttp(w)

SpecHttpPool == InitHttpPool /\ [][NextHttpPool]_vars

---------------------------------------------------------------------------
(* Claims about Framed. *)

\* the bytes the last call read from the stream
BytesRead == Take(call.inbox, Len(call.inbox) - Len(inbox))

\* C4: over any sequence of Framed.poll calls the bytes the decoder has drained,
\* then the buffered bytes, then the bytes still to be read are the stream's
\* bytes in order, none lost or duplicated, and a poll that returns NotReady
\* keeps the buffered bytes and adds the bytes it read.
C4_DecodeBufferExact ==
    /\ drained \o buffer \o inbox = input0
    /\ (call.op = "poll" /\ ret.res = "NotReady")
          => buffer = call.buffer \o BytesRead

C4_Witness ==
    /\ call.op = "poll"
    /\ ret.res = "NotReady"
    /\ drained # <<>>
    /\ Len(buffer) > Len(call.buffer)
    /\ call.buffer # <<>>

\* C5: poll_complete makes one write, drains exactly the written bytes from the
\* front of the buffer, and returns Ready(()) when the buffer has become empty
\* and NotReady when bytes remain unwritten.
C5_PollCompleteResult ==
    (call.op = "poll_complete" /\ ret.res # "Err") =>
        /\ outbox = call.outbox \o Take(call.buffer, call.n)
        /\ buffer = Drop(call.buffer, call.n)
        /\ (ret.res = "Ready") = (buffer = <<>>)

\* C7: start_send accepts an item only when the buffer is empty, and then the
\* buffer holds exactly the item's encoding and the result is Ready; when the
\* buffer is non-empty it returns NotReady carrying the input item and leaves the
\* buffer and the stream unchanged.
C7_StartSend ==
    call.op = "start_send" =>
        IF call.buffer = <<>>
        THEN /\ ret.res = "Ready"
             /\ ret.item = None
             /\ buffer = LineEncode(call.item, <<>>)
        ELSE /\ ret.res = "NotReady"
             /\ ret.item = Some(call.item)
             /\ buffer = call.buffer
             /\ outbox = call.outbox
             /\ inbox = call.inbox

C7_Witness ==
    /\ call.op = "start_send"
    /\ call.buffer # <<>>
    /\ call.item # <<>>
    /\ ret.res = "NotReady"

\* C9: Framed.poll returns NotReady when the read would block,
\* Err(UnexpectedEof) on a zero-length read, Err on any other I/O error, and
\* Ready(value) only when the decoder produced that value from the buffered
\* bytes and the bytes read.
C9_PollOutcomes ==
    call.op = "poll" =>
        /\ call.io = "WouldBlock" => ret.res = "NotReady"
        /\ call.io = "Eof" => (ret.res = "Err" /\ ret.err = "UnexpectedEof")
        /\ call.io = "IoErr" => (ret.res = "Err" /\ ret.err = "Other")
        /\ ret.res = "Ready" =>
              LET d == LineDecode(call.buffer \o BytesRead)
              IN  d.ok /\ ret.item = Some(d.item) /\ buffer = d.rest

C9_Witness ==
    /\ call.op = "poll"
    /\ call.io = "Eof"
    /\ ret.res = "Err"
    /\ buffer # <<>>

---------------------------------------------------------------------------
(* Claims about Connection. *)

\* one or more letters, then a line feed
ValidRequests == {Append(l, LF) : l \in SeqsUpTo(Letters, MaxIn) \ {<<>>}}

TwoValidRequests(inp) == \E a, b \in ValidRequests : inp = a \o b

\* the edges of the cycle
Cycle == {<<"Reading", "Handling">>, <<"Handling", "Writing">>,
          <<"Writing", "Reading">>}

\* what one poll() of a Connection may change
C1_Step ==
    /\ conn' # conn =>
          \/ <<conn, conn'>> \in Cycle /\ call'.inner = "Ready"
          \/ conn' = "Done" /\ ret'.res = "Err"
    /\ call'.inner = "NotReady" => conn' = conn
    /\ requests' # requests =>
          /\ conn = "Reading" /\ conn' = "Handling"
          /\ Len(requests') = Len(requests) + 1
    /\ (conn = "Reading" /\ conn' = "Handling") => requests' # requests
    /\ (conn = "Writing" /\ conn' = "Reading") =>
          (value' = None /\ buffer' = <<>>)

\* C1: a Connection starts in Reading; its variant changes only along
\* Reading->Handling (a decoded request), Handling->Writing (a ready response)
\* and Writing->Reading (a completed send), or to Done when poll returns Err; a
\* poll whose inner operation is NotReady keeps the variant; the handler is
\* invoked exactly once per decoded request, and no read starts before the
\* previous response has been written out completely.
C1_SerialCycle == (conn = "Reading") /\ [][C1_Step]_vars

\* C2: when the peer sends two valid requests and neither the stream nor the
\* handler fails, no poll returns Err, and once every byte has been read and no
\* request is left in the buffer the handler has been invoked for both, so the
\* Connection has gone through Reading, Handling, Writing twice.
C2_KeepAlive ==
    (TwoValidRequests(input0) /\ ~faulted) =>
        /\ ret.res \notin {"Err", "Panic"}
        /\ (conn = "Reading" /\ inbox = <<>> /\ ~LineDecode(buffer).ok)
              => Len(requests) = 2

\* C3: the bytes written to the stream are the encoder's outputs for the
\* handler's responses, in order; bytes read from the stream are never written
\* back to it.
C3_EncodeBufferExact == IsPrefix(outbox, encoded)

\* C6: a Connection in Writing moves back to Reading only after the sink has
\* accepted the response and every byte of its encoding has been written.
C6_WriteCompletes ==
    (call.op = "Writing" /\ conn = "Reading") =>
        /\ value = None
        /\ buffer = <<>>

---------------------------------------------------------------------------
(* Claims about the round trip. *)

\* C8: the frames polled back are the frames written, in order: what has been
\* polled is always a prefix of what was written, and once every written byte
\* has been read back and poll yields no further frame, all of them have been
\* polled.
C8_RoundTrip ==
    /\ IsPrefix(rt.got, rt.frames)
    /\ (AllWritten /\ call.op = "poll" /\ ret.res # "Ready" /\ inbox = <<>>)
          => rt.got = rt.frames

---------------------------------------------------------------------------
(* Claims about the combinators. *)

\* what the poll() after a Ready or an Err may do
C10_Step ==
    ret.res \in {"Ready", "Err"} =>
        /\ ret'.res = "Panic"
        /\ call'.polled = {}
        /\ <<join', andThen', buffer', outbox', inbox', value'>>
              = <<join, andThen, buffer, outbox, inbox, value>>

\* C10: once poll() of a Join, an AndThen, a SendOne or a Connection has
\* returned Ready or Err, the next poll() halts, without returning a value and
\* without polling an inner object.
C10_PollMonotonic == [][C10_Step]_vars

---------------------------------------------------------------------------
(* Claims about MapErr, Join and AndThen under the recording caller. *)

\* the polls before the i-th one that returned Ready or Err
CompletedBefore(i) == \E j \in 1..(i - 1) : polls[j].res \in {"Ready", "Err"}

\* MapErr's results up to its completion: Ready and NotReady of the inner
\* object are returned as they are, an inner Err makes the one call of f
MapErrPassesThrough ==
    mapErr # NoMapErr =>
        \A i \in 1..Len(polls) :
            ~CompletedBefore(i) =>
                /\ polls[i].a \in {"Ready", "NotReady"} =>
                      /\ polls[i].res = polls[i].a
                      /\ polls[i].fcalls = 0
                      /\ polls[i].res = "Ready" =>
                            polls[i].item = Some(mapErr.inner.val)
                /\ polls[i].a = "Err" =>
                      /\ polls[i].res = "Err"
                      /\ polls[i].fcalls = 1
                      /\ mapErr.farg = Some(InnerErr)
                      /\ i = Len(polls) => ret.err = MapF(InnerErr)

\* C11: MapErr returns the inner Ready and NotReady unchanged, on the inner
\* Err calls f exactly once and returns the mapped error, and every poll()
\* after it has returned Ready or Err halts.
C11_MapErr ==
    /\ MapErrPassesThrough
    /\ mapErr # NoMapErr =>
          \A i \in 1..Len(polls) : CompletedBefore(i) => polls[i].res = "Panic"

\* the outer polls in which side s ("a" or "b") returned Ready
ReadyAt(s) == {i \in 1..Len(polls) : polls[i][s] = "Ready"}

\* the smallest element of a non-empty set of numbers
MinOf(S) == CHOOSE x \in S : \A y \in S : x <= y

\* K: how many times side s had been polled when it first returned Ready
FirstReady(s) ==
    Cardinality({i \in 1..MinOf(ReadyAt(s)) : polls[i][s] # ""})

\* no inner object of the run has returned an error or halted
NoInnerErr ==
    \A i \in 1..Len(polls) :
        polls[i].a \notin {"Err", "Panic"} /\ polls[i].b \notin {"Err", "Panic"}

\* C12: if the left side first returns Ready on its K1-th poll and the right
\* side on its K2-th poll and neither errs, Join.poll returns NotReady on its
\* first max(K1,K2)-1 calls and Ready((left value, right value)) on call
\* max(K1,K2); it never returns Ready before both sides have.
C12_JoinCompleteness ==
    join.state # "None" =>
        /\ \A i \in 1..Len(polls) :
              polls[i].res = "Ready" => ReadyAt("a") # {} /\ ReadyAt("b") # {}
        /\ (NoInnerErr /\ ReadyAt("a") # {} /\ ReadyAt("b") # {}) =>
              LET K1 == FirstReady("a")
                  K2 == FirstReady("b")
                  M == IF K1 >= K2 THEN K1 ELSE K2
              IN  /\ Len(polls) >= M
                  /\ \A i \in 1..(M - 1) : polls[i].res = "NotReady"
                  /\ polls[M].res = "Ready"
                  /\ polls[M].item = Some(<<join.left.val, join.right.val>>)

\* the two sides turn Ready on different polls and the Join has completed
C12_Witness ==
    /\ join.state = "Done"
    /\ ret.res = "Ready"
    /\ NoInnerErr
    /\ Len(polls) = MaxK + 1
    /\ FirstReady("a") = 1
    /\ FirstReady("b") = MaxK + 1

\* C13: an AndThen over an immediately-ready first stage calls f once with
\* the first stage's value and polls the produced second stage in the same
\* call; if that is Ready(y) the call returns Ready(y) (within 2 polls), if
\* it is NotReady the state becomes Second and every later poll polls the
\* second stage only.
C13_AndThenComposition ==
    (andThen.state # "None" /\ Len(polls) > 0 /\ polls[1].a = "Ready") =>
        /\ polls[1].fcalls = 1
        /\ andThen.farg = Some(andThen.first.val)
        /\ polls[1].b # ""
        /\ polls[1].b = "Ready" =>
              /\ polls[1].res = "Ready"
              /\ polls[1].item = Some(F(andThen, andThen.first.val).val)
        /\ polls[1].b = "NotReady" =>
              /\ polls[1].res = "NotReady"
              /\ Len(polls) = 1 => andThen.state = "Second"
              /\ \A i \in 2..Len(polls) :
                    /\ polls[i].a = ""
                    /\ polls[i].b # ""
                    /\ polls[i].fcalls = 1

\* the second stage was not ready in the first poll and was polled again
C13_Witness ==
    /\ andThen.state = "Second"
    /\ Len(polls) >= 2
    /\ polls[1].a = "Ready"
    /\ polls[1].b = "NotReady"
    /\ ret.res = "Ready"

---------------------------------------------------------------------------
(* Claims about the thread pool. *)

Workers == IF pool.state = "Pool" THEN 0..(pool.n - 1) ELSE {}

\* the streams a worker holds, and those its last pump pass polled with res
Held(w) ==
    {pool.workers[w].connections[i][1].id :
        i \in {j \in 1..Len(pool.workers[w].connections) :
                  pool.workers[w].connections[j] # None}}
PolledWith(w, rs) ==
    {pool.workers[w].log[i].id :
        i \in {j \in 1..Len(pool.workers[w].log) :
                  pool.workers[w].log[j].res \in rs}}

\* C14: with N >= 1 workers the k-th stream queued (from 0) is sent to worker
\* k mod N, last_thread stays in 0..N-1, and after M queued streams every
\* worker has been sent floor(M/N) or ceil(M/N) streams.
C14_RoundRobin ==
    pool.state = "Pool" =>
        /\ pool.last_thread \in 0..(pool.n - 1)
        /\ \A k \in 0..(pool.queued - 1) :
              \E i \in 1..Len(pool.sent[k % pool.n]) :
                  pool.sent[k % pool.n][i] = k
        /\ \A w \in Workers :
              /\ \A i \in 1..Len(pool.sent[w]) : pool.sent[w][i] % pool.n = w
              /\ Len(pool.sent[w]) \in {pool.queued \div pool.n,
                                        (pool.queued + pool.n - 1) \div pool.n}

\* more streams than workers have been queued, and not a multiple of N
C14_Witness ==
    /\ pool.state = "Pool"
    /\ pool.n = 2
    /\ pool.queued = 3
    /\ Len(pool.sent[0]) = 2
    /\ Len(pool.sent[1]) = 1

\* C15: after a pump pass the worker's list holds exactly the connections
\* whose poll returned NotReady in that pass, each once, and no empty slot;
\* those whose poll returned Ready or Err are not in it.
C15_PumpCompaction ==
    \A w \in Workers :
        LET cs == pool.workers[w].connections IN
        /\ \A i \in 1..Len(cs) : cs[i] # None
        /\ \A i, j \in 1..Len(cs) : i # j => cs[i] # cs[j]
        /\ Held(w) = PolledWith(w, {"NotReady"})
        /\ Held(w) \cap PolledWith(w, {"Ready", "Err"}) = {}

\* a pass in which the first of three connections ended and the last slot
\* was swapped into its place
C15_Witness ==
    \E w \in Workers :
        LET wk == pool.workers[w] IN
        /\ Len(wk.log) = 3
        /\ wk.log[1].res = "Err"
        /\ wk.log[2].res = "NotReady"
        /\ wk.log[3].res = "NotReady"
        /\ Len(wk.connections) = 2
        /\ wk.connections[1][1].id = wk.log[3].id

\* C16: in one pump pass every connection in the worker's list at the start
\* of the pass is polled exactly once, in slot order; a NotReady from one
\* connection does not keep the following ones from being polled.
C16_PumpPollsAll ==
    \A w \in Workers :
        LET wk == pool.workers[w] IN
        /\ Len(wk.log) = Len(wk.before)
        /\ \A i \in 1..Len(wk.before) : wk.log[i].id = wk.before[i]
        /\ \A i, j \in 1..Len(wk.log) : i # j => wk.log[i].id # wk.log[j].id

\* a pass whose first connection was not ready and whose second was polled
C16_Witness ==
    \E w \in Workers :
        LET wk == pool.workers[w] IN
        /\ Len(wk.before) >= 2
        /\ Len(wk.log) >= 2
        /\ wk.log[1].res = "NotReady"

\* what a loop iteration of worker w does about errors
C17_Step(w) ==
    pool'.workers[w] # pool.workers[w] =>
        LET old == pool.workers[w]
            new == pool'.workers[w]
            errs == {new.log[i].id : i \in {j \in 1..Len(new.log) :
                                               new.log[j].res = "Err"}}
            live == {new.log[i].id : i \in {j \in 1..Len(new.log) :
                                               new.log[j].res = "NotReady"}}
            now == {new.connections[i][1].id : i \in 1..Len(new.connections)}
            was == {old.connections[i][1].id : i \in 1..Len(old.connections)}
            all == {new.log[i].id : i \in 1..Len(new.log)}
        IN  /\ now = live
            /\ now \cap errs = {}
            /\ was \subseteq all
            /\ pool.chans[w] # <<>> =>
                  /\ new.msg = Some(Head(pool.chans[w]))
                  /\ new.msg[1] \in all

\* C17: when the poll of a connection returns Err the worker drops exactly
\* that connection: the connections that were not ready stay, every
\* connection kept by one pass is polled in the next, and a stream waiting
\* in the channel is received and polled whatever the other polls returned.
C17_ErrDropsOne == [][\A w \in Workers : C17_Step(w)]_vars

\* a pass in which one connection failed, another one stayed and a new
\* stream was received
C17_Witness ==
    \E w \in Workers :
        LET wk == pool.workers[w] IN
        /\ Len(wk.log) = 3
        /\ wk.log[1].res = "Err"
        /\ wk.log[2].res = "NotReady"
        /\ wk.msg # None
        /\ wk.log[3].id = wk.msg[1]
        /\ wk.log[3].res = "NotReady"
        /\ Len(wk.connections) = 2

---------------------------------------------------------------------------
(* Claims about TcpServer::serve. *)

\* C18: an Err from polling a connection is routine for serve: the server
\* keeps running and goes on accepting streams.
C18_ServeSurvivesErr ==
    (server.state = "Serve" /\ server.last = "Err") =>
        server.pc \in {"Accepting", "Polling"}

\* the clients whose streams have been accepted
AcceptedIds == {server.streams[i].id : i \in 1..Len(server.streams)}

\* C19: every accepted stream is set to non-blocking and forwarded to the
\* pool, and a client waiting to be accepted never waits for an earlier
\* connection: serve is at accept whenever a client is waiting.
C19_AcceptNeverWaits ==
    server.state = "Serve" =>
        /\ \A i \in 1..Len(server.streams) : server.streams[i].nonblocking
        /\ AcceptedIds = {server.forwarded[i] : i \in 1..Len(server.forwarded)}
        /\ (server.backlog # <<>> /\ server.pc # "Returned") =>
              server.pc = "Accepting"

---------------------------------------------------------------------------
(* Claims about the Twister. *)

\* the Twister has returned Ready((len(A), len(B))) and each endpoint has
\* been written the content of the other
Twisted ==
    /\ twister.state = "Done"
    /\ ret.res = "Ready"
    /\ ret.item = Some(<<Len(twister.first.content),
                         Len(twister.second.content)>>)
    /\ twister.second.written = twister.first.content
    /\ twister.first.written = twister.second.content

---------------------------------------------------------------------------
(* Claims about the HTTP parser. *)

\* the start line ends with LF or CR LF and ProtocolParser::parse has run
ProtocolCase ==
    /\ http.op = "protocol" /\ http.out # <<>>
    /\ http.parts.start.term \in {<<LF>>, <<CR, LF>>}

\* C21: on an input METHOD ws+ PATH ws+ VERSION (CR LF or LF) REST, with
\* ws a space or a tab, ProtocolParser::parse returns the four slices
\* METHOD, PATH, VERSION and REST, REST beginning at the first byte after the
\* line terminator.
C21_ProtocolLine ==
    ProtocolCase =>
        LET st == http.parts.start
            r == http.out[1]
        IN  /\ r # None
            /\ BytesOf(http.data, r[1].part1) = st.method
            /\ BytesOf(http.data, r[1].part2) = st.path
            /\ BytesOf(http.data, r[1].part3) = st.version
            /\ r[1].tail = Slice(Len(StartBytes(st)), Len(http.data))
            /\ BytesOf(http.data, r[1].tail) = http.parts.rest

\* a start line with runs of two whitespace bytes, ended by CR LF and
\* followed by a second line, has been parsed
C21_Witness ==
    /\ ProtocolCase
    /\ Len(http.parts.start.ws1) = 2 /\ Len(http.parts.start.ws2) = 2
    /\ http.parts.start.term = <<CR, LF>>
    /\ http.parts.rest = <<97, LF>>
    /\ http.out[1] # None


\* a header line NAME ':' sep* VALUE ended by LF or CR LF, VALUE beginning
\* with no separator
WellFormed(ln) ==
    /\ ln.term \in {<<LF>>, <<CR, LF>>}
    /\ ln.value = <<>> \/ ln.value[1] \notin {COLON, SP, TAB}

\* where header line i of the input begins
LineStart(i) ==
    Len(StartBytes(http.parts.start))
        + Len(LinesBytes(SubSeq(http.parts.lines, 1, i - 1)))

\* C22: on a line NAME ':' sep* VALUE (CR LF or LF) REST, sep a ':', a space
\* or a tab, HeaderParser::parse returns Header(NAME, VALUE) and REST, NAME
\* the bytes before the first ':', VALUE the bytes up to the first CR or LF,
\* REST beginning at the next line; a fresh parser on each REST yields the
\* headers in their order.
C22_HeaderLines ==
    http.op = "header" =>
        \A i \in 1..Min(Len(http.out), Len(http.parts.lines)) :
            (\A j \in 1..i : WellFormed(http.parts.lines[j])) =>
                /\ http.out[i] # None
                /\ BytesOf(http.data, http.out[i][1].name) = http.parts.lines[i].name
                /\ BytesOf(http.data, http.out[i][1].value) = http.parts.lines[i].value
                /\ http.out[i][1].tail = Slice(LineStart(i + 1), Len(http.data))

\* two well-formed lines have been parsed one after the other, the first with
\* a space after the ':' and a ':' inside its value
C22_Witness ==
    /\ http.op = "header" /\ Len(http.out) >= 2
    /\ \A j \in 1..2 : WellFormed(http.parts.lines[j])
    /\ http.parts.lines[1].sep = <<SP>>
    /\ http.parts.lines[1].value = <<97, COLON, 97>>
    /\ http.parts.lines[1].term = <<CR, LF>>
    /\ http.parts.lines[2].term = <<LF>>
    /\ http.out[2] # None


\* the start line, every header line and the line that ends the headers are
\* ended by LF or CR LF, and the header array has room for the header lines
ObjectCase(op) ==
    /\ http.op = op /\ http.out # <<>>
    /\ http.parts.start.term \in {<<LF>>, <<CR, LF>>}
    /\ \A i \in 1..Len(http.parts.lines) :
          http.parts.lines[i].term \in {<<LF>>, <<CR, LF>>}
    /\ http.parts.end \in {<<LF>>, <<CR, LF>>}
    /\ Len(http.parts.lines) <= http.cap

\* the names and values of the headers hs, slices of data, as bytes
HeaderBytes(data, hs) ==
    [i \in 1..Len(hs) |-> <<BytesOf(data, hs[i].name), BytesOf(data, hs[i].value)>>]

\* the names and values the header lines lns were made of
LineHeaders(lns) == [i \in 1..Len(lns) |-> <<lns[i].name, lns[i].value>>]

\* C23: Request::parse stops exactly at the empty line that ends the headers:
\* it returns Some(n) with n the offset of the first byte after that empty
\* line, the headers it reports are the header lines before it, and no
\* non-empty line is taken for the end of the headers.
C23_StopsAtEmptyLine ==
    ObjectCase("request") =>
        /\ http.out[1].res = "Some"
        /\ http.out[1].n = Len(http.data) - Len(http.parts.rest)
        /\ HeaderBytes(http.data, http.out[1].headers) = LineHeaders(http.parts.lines)


\* the bytes between the end of slice v and the start of slice t
Skipped(v, t) == BytesOf(http.data, Slice(v.hi, t.lo))

\* C24: after the version, and after each header value, the parser skips
\* exactly one line terminator, a CR LF or a lone LF, and nothing else: for
\* every input the returned tail begins right after that terminator.
C24_OneTerminator ==
    /\ http.op = "protocol" =>
          \A i \in 1..Len(http.out) :
              http.out[i] # None =>
                  Skipped(http.out[i][1].part3, http.out[i][1].tail)
                      \in {<<LF>>, <<CR, LF>>}
    /\ http.op = "header" =>
          \A i \in 1..Len(http.out) :
              (http.out[i] # None /\ SliceLen(http.out[i][1].name) > 0) =>
                  Skipped(http.out[i][1].value, http.out[i][1].tail)
                      \in {<<LF>>, <<CR, LF>>}


---------------------------------------------------------------------------
(* Claims about the HTTP types. *)

\* the lower-case names of the methods
MethodNames ==
    [Connect |-> <<99, 111, 110, 110, 101, 99, 116>>, Get |-> <<103, 101, 116>>,
     Post |-> <<112, 111, 115, 116>>, Put |-> <<112, 117, 116>>,
     Delete |-> <<100, 101, 108, 101, 116, 101>>,
     Patch |-> <<112, 97, 116, 99, 104>>, Head |-> <<104, 101, 97, 100>>,
     Options |-> <<111, 112, 116, 105, 111, 110, 115>>]

\* byte strings a and b are equal but for the case of their ASCII letters
SameButCase(a, b) ==
    /\ Len(a) = Len(b)
    /\ \A i \in 1..Len(a) :
          \/ a[i] = b[i]
          \/ a[i] \in 65..90 /\ b[i] = a[i] + 32
          \/ a[i] \in 97..122 /\ b[i] = a[i] - 32

\* C25: HttpMethod from bytes compares without regard to case against
\* connect, get, post, put, delete, patch, head and options and returns the
\* matching method; any other byte string gives Unsupported.
C25_MethodFrom ==
    (http.op = "method" /\ http.out # <<>>) =>
        LET named == {m \in DOMAIN MethodNames : SameButCase(http.data, MethodNames[m])}
        IN  IF named # {} THEN http.out[1] \in named
            ELSE http.out[1] = "Unsupported"


\* parse_request or parse_response has run
DecodeCase == http.op \in {"parse_request", "parse_response"} /\ http.out # <<>>

\* the start line, every header line and the line that ends the headers are
\* ended by LF or CR LF
WellEnded ==
    /\ http.parts.start.term \in {<<LF>>, <<CR, LF>>}
    /\ \A i \in 1..Len(http.parts.lines) :
          http.parts.lines[i].term \in {<<LF>>, <<CR, LF>>}
    /\ http.parts.end \in {<<LF>>, <<CR, LF>>}

\* C26: parse_request and parse_response are decoders: when they return a
\* value they have drained exactly the start line, the headers and the empty
\* line from the buffer, leaving the body; when they return None the buffer
\* is unchanged.
C26_DecoderDrains ==
    DecodeCase =>
        /\ http.out[1] = "None" => http.buffer = http.data
        /\ (http.out[1] = "Some" /\ WellEnded) => http.buffer = http.parts.rest


\* the headers hs are header lines of the input, in the order of the input
InWireOrder(hs) ==
    LET lns == LineHeaders(http.parts.lines)
    IN  \E f \in [1..Len(hs) -> 1..Len(lns)] :
            /\ \A i \in 1..Len(hs) : hs[i] = lns[f[i]]
            /\ \A i, j \in 1..Len(hs) : i < j => f[i] < f[j]

\* C27: the header list of a request or response keeps insertion order: the
\* headers parsed from the wire come first, in wire order, and each
\* add_header appends after all the headers there are.
C27_HeaderOrder ==
    http.obj # NoObject =>
        LET hs == http.obj.headers
            k == Len(hs) - Len(http.added)
        IN  /\ k >= 0
            /\ SubSeq(hs, k + 1, Len(hs)) = http.added
            /\ InWireOrder(SubSeq(hs, 1, k))

\* a response parsed with two headers has had two more headers added, of
\* different names
C27_Witness ==
    /\ http.op = "parse_response" /\ http.obj # NoObject
    /\ Len(http.obj.headers) = 4
    /\ http.added = << <<<<98>>, <<49>>>>, <<<<97>>, <<49>>>> >>


---------------------------------------------------------------------------
(* Claims about FuseResult and the combinators. *)

\* no take() was among the first n calls
NotTakenBefore(n) == \A i \in 1..n : polls[i].op # "take"

\* C28: once the wrapped Pollable has returned Ready, every later
\* FuseResult::poll returns Ready(()) without polling the wrapped Pollable
\* again, and a take() that follows returns Ok of the stored value.
C28_FuseResult ==
    fuse.state # "None" =>
        /\ ~fuse.p.late
        /\ \A i \in 1..Len(polls) : \A j \in (i + 1)..Len(polls) :
              (polls[i].a = "Ready" /\ NotTakenBefore(j - 1)) =>
                  IF polls[j].op = "poll"
                  THEN polls[j].res = "Ready" /\ polls[j].a = ""
                  ELSE polls[j].res = "Ok" /\ polls[j].item = Some(fuse.p.val)

\* the wrapped Pollable was NotReady once, then Ready; three more polls and a
\* take() followed
C28_Witness ==
    /\ fuse.state = "Empty" /\ Len(polls) = 6
    /\ polls[1].a = "NotReady" /\ polls[2].a = "Ready"
    /\ \A j \in 3..5 : polls[j].op = "poll" /\ polls[j].res = "Ready"
    /\ polls[6].op = "take" /\ polls[6].res = "Ok"


\* the combinator had not completed before its n-th poll
Incomplete(n) == \A i \in 1..(n - 1) : polls[i].res = "NotReady"

\* C29: a combinator never polls an inner Pollable that has completed, as
\* long as the combinator itself is not polled after its own completion; a
\* Join with one side done polls only the other side.
C29_NoCompletedRepoll ==
    (join.state # "None" \/ andThen.state # "None" \/ mapErr # NoMapErr) =>
        \A j \in 1..Len(polls) :
            Incomplete(j) =>
                \A i \in 1..(j - 1) :
                    /\ polls[i].a \in {"Ready", "Err"} => polls[j].a = ""
                    /\ polls[i].b \in {"Ready", "Err"} => polls[j].b = ""

\* a Join whose left side was Ready at once and whose right side was not has
\* been polled twice more, each time on the right side only, until Ready
C29_Witness ==
    /\ join.state = "Done" /\ Len(polls) = 3
    /\ polls[1].a = "Ready" /\ polls[1].b = "NotReady"
    /\ polls[2].a = "" /\ polls[2].b = "NotReady"
    /\ polls[3].a = "" /\ polls[3].b = "Ready" /\ polls[3].res = "Ready"


\* C30: if either side of a Join returns Err, Join::poll returns Err in that
\* same call and never yields Ready afterwards, and a value the other side
\* had completed is discarded; when the left side errs, the right side is
\* not polled in that call.
C30_JoinErrAborts ==
    join.state # "None" =>
        \A j \in 1..Len(polls) :
            /\ (polls[j].a = "Err" \/ polls[j].b = "Err") =>
                  /\ polls[j].res = "Err" /\ polls[j].item = None
                  /\ \A k \in (j + 1)..Len(polls) : polls[k].res # "Ready"
                  /\ join.state = "Done" /\ join.lv = None /\ join.rv = None
            /\ polls[j].a = "Err" => polls[j].b = ""

\* the left side was Ready and its value kept, then the right side returned
\* Err, and the Join was polled once more
C30_Witness ==
    /\ join.state = "Done" /\ Len(polls) = 3
    /\ polls[1].a = "Ready" /\ polls[1].b = "NotReady"
    /\ polls[2].a = "" /\ polls[2].b = "Err" /\ polls[2].res = "Err"
    /\ polls[3].res = "Panic"


---------------------------------------------------------------------------
(* Further claims about the combinators and the sink. *)

\* how many times f had been called after the first n polls
FCallsAfter(n) == IF n = 0 THEN 0 ELSE polls[n].fcalls

\* C31: in AndThen the function f is invoked at most once over the whole
\* life of the combinator, only in a poll in which the first stage returned
\* Ready and with exactly that value; if the first stage returns Err, f is
\* never invoked and the error is returned.
C31_FCalledOnce ==
    andThen.state # "None" =>
        /\ andThen.fcalls <= 1
        /\ andThen.fcalls = FCallsAfter(Len(polls))
        /\ \A j \in 1..Len(polls) :
              /\ polls[j].fcalls > FCallsAfter(j - 1) =>
                    /\ polls[j].a = "Ready"
                    /\ andThen.farg = Some(andThen.first.val)
              /\ polls[j].a = "Err" =>
                    polls[j].res = "Err" /\ andThen.fcalls = 0
        /\ andThen.fcalls = 0 => andThen.farg = None

\* f was called in the second poll, when the first stage became Ready, and
\* the AndThen was polled twice more, once after the second stage was Ready
C31_Witness ==
    /\ andThen.state = "Second" /\ Len(polls) = 4
    /\ polls[1].a = "NotReady" /\ polls[1].fcalls = 0
    /\ polls[2].a = "Ready" /\ polls[2].b = "NotReady" /\ polls[2].fcalls = 1
    /\ polls[3].res = "Ready"
    /\ andThen.fcalls = 1


\* one poll of the SendOne held by Connection::Writing
C32_Step ==
    conn = "Writing" =>
        /\ call'.op = "Writing"
        /\ value = None => value' = None /\ encoded' = encoded
        /\ value # None =>
              \/ /\ value' = value
                 /\ encoded' = encoded
                 /\ call'.inner # "Ready"
              \/ /\ value' = None
                 /\ encoded' = encoded \o LineEncode(value[1], <<>>)
        /\ call'.inner = "Ready" => value' = None /\ conn' = "Reading"

\* C32: SendOne hands its item to the sink until the sink accepts it exactly
\* once: while start_send answers NotReady the item is kept and offered
\* again in a later poll, it is encoded once and never dropped, and poll
\* returns Ready only once the item has been accepted.
C32_SendOneOnce == [][C32_Step]_vars

\* the sink refused the item in an earlier poll, whose poll_complete wrote
\* the bytes that were in the way, and has accepted it in this one
C32_Witness ==
    /\ call.op = "Writing" /\ call.item # None /\ value = None
    /\ call.outbox # <<>> /\ call.buffer = <<>>
    /\ encoded # <<>> /\ encoded = LineEncode(call.item[1], <<>>)


\* C33: every call of SendOne.poll over a Framed sink returns, whatever the
\* stream's writes return (a positive count, zero, would-block, an error):
\* a call that has started always comes back to its caller.
C33_PollReturns == (sendOne.pc = "take") ~> (sendOne.pc = "idle")


\* C34: transitions of Connection are atomic: after any poll() that returned
\* Ok the Connection is Reading, Handling or Writing, holding what that
\* variant owns; Done is seen only after a poll() that returned Err, and the
\* only poll that panics is one made on Done.
C34_AtomicTransitions ==
    /\ ret.res \in {"None", "NotReady"} =>
          /\ conn \in {"Reading", "Handling", "Writing"}
          /\ conn \in {"Reading", "Handling"} => value = None
          /\ conn # "Handling" => pollable = NoPollable
    /\ conn = "Done" => ret.res \in {"Err", "Panic"}
    /\ ret.res = "Panic" => call.op = "Done" /\ conn = "Done"
    /\ ret.res # "Ready"

\* a poll of Writing failed after a request had been handled: Done is seen
C34_Witness ==
    /\ conn = "Done" /\ ret.res = "Err" /\ call.op = "Writing"
    /\ Len(requests) = 2


\* one loop iteration of worker w
C35_Step(w) ==
    (pool'.workers[w] # pool.workers[w] \/ pool'.chans[w] # pool.chans[w])
    /\ pool'.queued = pool.queued =>
        LET old == pool.workers[w]
            new == pool'.workers[w]
            ch  == pool.chans[w]
        IN  /\ new.recv = (IF old.connections = <<>> THEN "recv" ELSE "try_recv")
            /\ new.recv = "recv" => ch # <<>> /\ new.msg # None
            /\ new.msg = (IF ch = <<>> THEN None ELSE Some(Head(ch)))
            /\ pool'.chans[w] = (IF ch = <<>> THEN ch ELSE Tail(ch))
            /\ Len(new.before) = Len(old.connections) + Len(new.msg)
            /\ Len(new.log) = Len(new.before)

\* C35: a pool worker blocks on the channel (recv) only when it has no
\* active connection; while it has one it uses try_recv; either way it takes
\* at most one stream per loop iteration, and every iteration runs one pump
\* pass over the connections it then has.
C35_WorkerReceive == [][\A w \in Workers : C35_Step(w)]_vars

\* a worker that has a connection took one of two waiting streams with
\* try_recv and left the other in the channel
C35_Witness ==
    /\ pool.state = "Pool"
    /\ \E w \in Workers :
          /\ pool.workers[w].recv = "try_recv"
          /\ pool.workers[w].msg # None
          /\ Len(pool.workers[w].before) = 2
          /\ pool.chans[w] # <<>>


\* stream s waits in the channel of worker w
Waiting(w, s) ==
    /\ pool.state = "Pool" /\ w < pool.n
    /\ \E i \in 1..Len(pool.chans[w]) : pool.chans[w][i] = s

\* the last iteration of worker w received stream s, bound it and polled it
ReceivedAndPolled(w, s) ==
    /\ pool.state = "Pool" /\ w < pool.n
    /\ pool.workers[w].msg = Some(s)
    /\ \E i \in 1..Len(pool.workers[w].before) : pool.workers[w].before[i] = s
    /\ \E i \in 1..Len(pool.workers[w].log) : pool.workers[w].log[i].id = s

\* C36: under fair scheduling of the workers each stream passed to
\* ThreadPool.queue is eventually received by its worker, bound into a
\* connection and polled, whatever the polls of that worker's other
\* connections return, NotReady forever included.
C36_QueuedIsPolled ==
    \A w \in 0..(MaxWorkers - 1) : \A s \in 0..(MaxStreams - 1) :
        Waiting(w, s) ~> ReceivedAndPolled(w, s)

\* a stream was received and polled by a worker whose older connection
\* was polled in the same pass and stayed not ready
C36_Witness ==
    /\ pool.state = "Pool"
    /\ \E w \in Workers :
          LET wk == pool.workers[w] IN
          /\ wk.recv = "try_recv" /\ wk.msg # None
          /\ Len(wk.log) = 2 /\ Len(wk.connections) = 2
          /\ wk.log[1].res = "NotReady" /\ wk.log[1].id # wk.msg[1]
          /\ wk.log[2].id = wk.msg[1] /\ wk.log[2].res = "NotReady"


\* the bytes of the head of the request of this run: all but the body
HeadLen == Len(http.data) - Len(http.parts.rest)

\* C37: while only a proper prefix of a well-formed request head has
\* arrived, parse_request returns None and leaves the buffer as it is; once
\* the whole head has arrived it returns the request that it returns when
\* all the bytes arrive at once, and leaves the bytes after the head.
C37_PrefixIsNone ==
    (http.op = "feed" /\ http.out # <<>>) =>
        /\ http.arrived < HeadLen =>
              /\ http.out = <<"None">>
              /\ http.buffer = Take(http.data, http.arrived)
        /\ http.arrived >= HeadLen =>
              /\ http.out = <<"Some">>
              /\ http.obj = parse_request(Take(http.data, HeadLen)).obj
              /\ http.buffer = SubSeq(http.data, HeadLen + 1, http.arrived)


\* all of a request with two header lines has arrived but the LF of the
\* empty line: parse_request returned None and left the buffer as it was
C37_Witness ==
    /\ http.op = "feed" /\ http.out = <<"None">>
    /\ Len(http.parts.lines) = 2 /\ http.parts.end = <<CR, LF>>
    /\ http.arrived = HeadLen - 1
    /\ http.buffer = Take(http.data, HeadLen - 1)


\* C38: Framed.poll never withholds a buffered frame: when the buffer holds
\* a complete frame as poll is called, and the read does not fail, poll
\* returns Ready with that frame, whether or not the stream has more bytes.
C38_NoFrameWithheld ==
    (call.op = "poll" /\ Decode("line", call.buffer).ok /\ call.io # "IoErr") =>
        /\ ret.res = "Ready"
        /\ ret.item = Some(Decode("line", call.buffer).item)


\* C39: Transfer copies faithfully under partial writes: whatever the read
\* sizes, the write counts and the would-block results, the bytes the
\* destination has taken are a prefix of the bytes read from the source,
\* and the transferred count is their number.
C39_TransferFaithful ==
    twister.state = "Transfer" =>
        /\ IsPrefix(twister.written, Take(twister.src.content, twister.src.pos))
        /\ twister.t.transferred = Len(twister.written)


\* C40: what one connection receives affects that connection only: no
\* queue call fails, and a connection whose own polls have all returned
\* NotReady is still held by the worker that bound it, whatever the other
\* connections of that worker received.
C40_Isolation ==
    pool.state = "HttpPool" =>
        /\ ~pool.panicked
        /\ \A w \in 0..(pool.n - 1) :
              LET wk == pool.workers[w] IN
              \A s \in wk.bound \ wk.failed :
                  \E i \in 1..Len(wk.connections) : wk.connections[i][1].id = s

====
